---- MODULE Spec2Model ----
(***************************************************************************)
(* Model of src/src/disagreement.py: the fair-probability extractor        *)
(* remove_vig, the divergence jensen_shannon and the bookmaker             *)
(* disagreement scorer bookmaker_disagreement (Jensen-Shannon divergence   *)
(* of each bookmaker against the consensus distribution).                  *)
(*                                                                         *)
(* Numbers.  Python floats are modelled as records [k, n, d]:              *)
(*   k = "fin"  the exact rational n/d (d > 0, lowest terms),              *)
(*   k = "nan"  the IEEE not-a-number,                                     *)
(*   k = "inf"  the IEEE +infinity,                                        *)
(*   k = "sqrt" the square root of the rational n/d (math.sqrt, exact).    *)
(* Prices may also be the Python objects None (k = "none") and a           *)
(* non-numeric object such as the string "2.0" (k = "str").                *)
(* Finite arithmetic is exact: rounding of IEEE doubles is not modelled,   *)
(* so "sums to 1" stands for the 1e-9 tolerance of the specification.      *)
(* math.log is computed in fixed point, in multiples of 1/LogUnit, rounded  *)
(* down.  The rounding of float sums is modelled only in the               *)
(* specification SpecOrder, on floats of MantissaBits bits; the range of   *)
(* floats only where a power overflows (FloatRootMax).                     *)
(*                                                                         *)
(* The tools around the scorer are modelled after it:                      *)
(* tools/recompute_bdi_using_both_sides.py, tools/add_bdi_to_csv.py, the   *)
(* OddsData model of src/src/models.py and the non-fair BDI block of       *)
(* src/src/analyzer.py.                                                    *)
(*                                                                         *)
(* Dictionaries are functions from labels to values; outcome labels are    *)
(* the integers 1..MaxLabels, ordered as the strings they stand for.       *)
(***************************************************************************)
EXTENDS Integers, Sequences, FiniteSets, TLC

\* odds, fair: the argument and the result of the call of remove_vig
\* bookmaker_odds_list, result: the argument and the result of the call of
\*   bookmaker_disagreement; locals: its local variables when it returned
\* dist_p, dist_q, jsd: the arguments p and q and the result of the call of
\*   jensen_shannon
\* pc: "call" before the call, "done" after it
\* calls: the log of the calls of remove_vig and bookmaker_disagreement made
\*   one after the other on the same objects
\* over_odds, under_odds, fair_bdi: the arguments and the result of the call
\*   of compute_fair_bdi_for_group
\* rows, out_rows: the rows read and the rows written by process of
\*   recompute_bdi_using_both_sides
\* cell, bdi_row: the Todas_Las_Cuotas cell of a row and the columns written
\*   for it by process of add_bdi_to_csv
\* odds_data: the outcome of the construction of an OddsData
\* odds_1x: the odds of a selection the analyzer scores; bdi: the outcome
\*   of its non-fair BDI block; csv_bdi: the outcome of
\*   compute_bdi_from_odds_list of add_bdi_to_csv on the same odds
VARIABLES odds, fair, bookmaker_odds_list, locals, result,
          dist_p, dist_q, jsd, pc,
          calls, over_odds, under_odds, fair_bdi, rows, out_rows,
          cell, bdi_row, odds_data,
          odds_1x, bdi, csv_bdi

\* the state of the tools around the scorer
tools == <<calls, over_odds, under_odds, fair_bdi, rows, out_rows,
           cell, bdi_row, odds_data>>

\* the state of the analyzer's non-fair BDI block
analysis == <<odds_1x, bdi, csv_bdi>>

vars == <<odds, fair, bookmaker_odds_list, locals, result,
          dist_p, dist_q, jsd, pc, tools, analysis>>

(***************************************************************************)
(* Bounds                                                                  *)
(***************************************************************************)
\* labels of a quote set handed to remove_vig
MaxLabels == 3
\* finite positive prices are 3/2, 4/2, ..., MaxHalfPrice/2
MaxHalfPrice == 4
\* length of the list handed to bookmaker_disagreement
MaxBookmakers == 3
\* probabilities handed to jensen_shannon are the multiples of 1/GridSteps ...
GridSteps == 10
\* ... and their two neighbours at distance 1/(GridSteps * NearFactor)
NearFactor == 100

(***************************************************************************)
(* Numbers                                                                 *)
(***************************************************************************)
RECURSIVE GCD(_, _)
GCD(a, b) == IF b = 0 THEN a ELSE GCD(b, a % b)

AbsInt(a) == IF a < 0 THEN -a ELSE a

\* the rational n/d (d # 0) in lowest terms
Fin(n, d) ==
    LET s == IF d < 0 THEN -1 ELSE 1
        g == GCD(AbsInt(n), AbsInt(d))
    IN  [k |-> "fin", n |-> (s * n) \div g, d |-> (s * d) \div g]

Zero == [k |-> "fin", n |-> 0, d |-> 1]
One == [k |-> "fin", n |-> 1, d |-> 1]
NaN == [k |-> "nan", n |-> 0, d |-> 1]
Inf == [k |-> "inf", n |-> 0, d |-> 1]
None == [k |-> "none", n |-> 0, d |-> 1]
Str == [k |-> "str", n |-> 0, d |-> 1]

IsFin(x) == x.k = "fin"
IsNaN(x) == x.k = "nan"

\* x <= 0 on floats: False for nan and for +inf
LeZero(x) == IsFin(x) /\ x.n <= 0

\* x > 0 on floats: False for nan, True for +inf
GtZero(x) == (IsFin(x) /\ x.n > 0) \/ x.k = "inf"

LCM(a, b) == (a \div GCD(a, b)) * b

\* x + y for x, y finite or nan
Add(x, y) ==
    IF IsNaN(x) \/ IsNaN(y) THEN NaN
    ELSE LET l == LCM(x.d, y.d)
         IN  Fin(x.n * (l \div x.d) + y.n * (l \div y.d), l)

Neg(x) == IF IsNaN(x) THEN NaN ELSE [k |-> "fin", n |-> -x.n, d |-> x.d]

Sub(x, y) == Add(x, Neg(y))

Mul(x, y) ==
    IF IsNaN(x) \/ IsNaN(y) THEN NaN
    ELSE LET g1 == GCD(AbsInt(x.n), y.d)
             g2 == GCD(AbsInt(y.n), x.d)
         IN  Fin((x.n \div g1) * (y.n \div g2), (x.d \div g2) * (y.d \div g1))

\* x / y raises ZeroDivisionError when y is 0.0
DivRaises(x, y) == IsFin(y) /\ y.n = 0

\* x / y for x finite or nan, y finite non-zero, nan or +inf
Div(x, y) ==
    IF IsNaN(x) \/ IsNaN(y) THEN NaN
    ELSE IF y.k = "inf" THEN Zero
    ELSE Mul(x, Fin(y.d, y.n))

AbsNum(x) == IF IsNaN(x) THEN NaN ELSE [k |-> "fin", n |-> AbsInt(x.n), d |-> x.d]

\* float(n) for a Python int n
IntNum(i) == [k |-> "fin", n |-> i, d |-> 1]

\* sum of the values of a dictionary / of a list of numbers, 0 when empty
RECURSIVE SumOver(_, _)
SumOver(f, S) ==
    IF S = {} THEN Zero
    ELSE LET m == CHOOSE x \in S : \A y \in S : x <= y
         IN  Add(f[m], SumOver(f, S \ {m}))

SumVals(f) == SumOver(f, DOMAIN f)

\* the empty dict / empty list
EmptyDict == <<>>

(***************************************************************************)
(* remove_vig                                                              *)
(***************************************************************************)
\* the body of the try block for one entry k, v of odds.items():
\*   "skip" the continue statement, "exc" an exception, "ok" raw[k] = val
TryBody(v) ==
    IF v.k = "none" THEN [st |-> "skip", val |-> Zero]
    ELSE IF v.k = "str" THEN [st |-> "exc", val |-> Zero]
    ELSE IF LeZero(v) THEN [st |-> "skip", val |-> Zero]
    ELSE IF DivRaises(One, v) THEN [st |-> "exc", val |-> Zero]
    ELSE [st |-> "ok", val |-> Div(One, v)]

\* the loop body without its try / except: the exception escapes
ExceptPass(r) == r

\* except Exception: continue
ExceptContinue(r) ==
    IF r.st = "exc" THEN [st |-> "skip", val |-> Zero] ELSE r

\* one iteration of the for loop
Entry(v) == ExceptContinue(TryBody(v))

\* the guard on the sum of the raw weights: s <= 0
SumGuard(s) == LeZero(s)

\* remove_vig(odds): [raised |-> an exception escaped, ret |-> returned dict]
remove_vig(o) ==
    IF DOMAIN o = {} THEN [raised |-> FALSE, ret |-> EmptyDict]
    ELSE
      LET steps == [k \in DOMAIN o |-> Entry(o[k])]
          esc == \E k \in DOMAIN o : steps[k].st = "exc"
          keys == {k \in DOMAIN o : steps[k].st = "ok"}
          raw == [k \in keys |-> steps[k].val]
          s == SumVals(raw)
      IN  IF esc THEN [raised |-> TRUE, ret |-> EmptyDict]
          ELSE IF keys = {} THEN [raised |-> FALSE, ret |-> EmptyDict]
          ELSE IF SumGuard(s) THEN [raised |-> FALSE, ret |-> EmptyDict]
          ELSE IF \E k \in keys : DivRaises(raw[k], s)
               THEN [raised |-> TRUE, ret |-> EmptyDict]
          ELSE [raised |-> FALSE, ret |-> [k \in keys |-> Div(raw[k], s)]]

(***************************************************************************)
(* _kl_divergence and jensen_shannon                                       *)
(***************************************************************************)
\* math.log works in fixed point: a logarithm is a multiple of 1/LogUnit
LogUnit == 2 ^ 18

\* mantissas carry two guard bits
MantUnit == 4 * LogUnit

\* floor(log2(a/b)) for integers a, b > 0
RECURSIVE FloorLog2(_, _)
FloorLog2(a, b) ==
    IF a >= 2 * b THEN 1 + FloorLog2(a, 2 * b)
    ELSE IF a < b THEN FloorLog2(2 * a, b) - 1
    ELSE 0

\* a mantissa is held in two limbs of this size: LimbUnit * LimbUnit = MantUnit
LimbUnit == 2 ^ 10

\* a/b scaled into [1, 2), in units of 1/MantUnit, by long division
RECURSIVE Mantissa(_, _)
Mantissa(a, b) ==
    IF a >= 2 * b THEN Mantissa(a, 2 * b)
    ELSE IF a < b THEN Mantissa(2 * a, b)
    ELSE ((a * LimbUnit) \div b) * LimbUnit
            + (((a * LimbUnit) % b) * LimbUnit) \div b

\* the square of the mantissa y, in units of 1/MantUnit, limb by limb
SquareMantissa(y) ==
    LET hi == y \div LimbUnit
        lo == y % LimbUnit
    IN  hi * hi + (2 * hi * lo + (lo * lo) \div LimbUnit) \div LimbUnit

\* the fractional bits of log2 of the mantissa y, by repeated squaring;
\* unit is the weight of the next bit
RECURSIVE FracLog2(_, _)
FracLog2(y, unit) ==
    IF unit = 0 THEN 0
    ELSE LET sq == SquareMantissa(y)
         IN  IF sq >= 2 * MantUnit
             THEN unit + FracLog2(sq \div 2, unit \div 2)
             ELSE FracLog2(sq, unit \div 2)

\* math.log(x) / math.log(2.0) for x > 0 finite, or nan
Log2(x) ==
    IF IsNaN(x) THEN NaN
    ELSE Fin(FloorLog2(x.n, x.d) * LogUnit
               + FracLog2(Mantissa(x.n, x.d), LogUnit \div 2), LogUnit)

\* math.log(x) raises ValueError (math domain error) for x <= 0
LogRaises(x) == LeZero(x)

\* eps = 1e-12 of _kl_divergence; log2(1/eps) = 39.8631 in units of 1/LogUnit
eps_log2_inv == 10449882

\* log2(pi / eps), computed as log2(pi) + log2(1/eps)
Log2OverEps(pi) == Add(Log2(pi), Fin(eps_log2_inv, LogUnit))

Min(a, b) == IF a < b THEN a ELSE b

\* if pi <= 0: continue -- the term is skipped
Skipped(pi) == LeZero(pi)

\* qi_safe = qi if qi > 0 else eps -- the epsilon floor replaces qi
Floored(qi) == ~GtZero(qi)

\* the logarithm of line 77 with the ratio upside down: math.log(qi / pi)
KLLogTermSwapped(pi, qi) ==
    IF Floored(qi) THEN Neg(Log2OverEps(pi)) ELSE Log2(Div(qi, pi))

\* qi_safe = qi if qi > 0 else eps, then math.log(pi / qi_safe) / math.log(base)
KLLogTerm(pi, qi) ==
    IF Floored(qi) THEN Log2OverEps(pi) ELSE Log2(Div(pi, qi))

\* one term of the sum in _kl_divergence; 0 when the term is skipped
KLTerm(pi, qi) ==
    IF Skipped(pi) THEN Zero ELSE Mul(pi, KLLogTerm(pi, qi))

\* the math.log call of a term raises
KLTermRaises(pi, qi) ==
    /\ ~Skipped(pi)
    /\ LogRaises(IF Floored(qi) THEN pi ELSE Div(pi, qi))

KLRaises(p, q) ==
    \E i \in 1..Min(Len(p), Len(q)) : KLTermRaises(p[i], q[i])

\* _kl_divergence(p, q, base=2.0) over zip(p, q)
RECURSIVE KLFrom(_, _, _)
KLFrom(p, q, i) ==
    IF i > Min(Len(p), Len(q)) THEN Zero
    ELSE Add(KLTerm(p[i], q[i]), KLFrom(p, q, i + 1))

_kl_divergence(p, q) == KLFrom(p, q, 1)

\* the ValueError of jensen_shannon
LengthMismatch(p, q) == Len(p) # Len(q)

\* m = [(pi + qi) / 2.0 for pi, qi in zip(p, q)]
Mixture(p, q) ==
    [i \in 1..Min(Len(p), Len(q)) |-> Div(Add(p[i], q[i]), IntNum(2))]

\* an exception escapes jensen_shannon(p, q, base=2.0)
JSRaises(p, q) ==
    \/ LengthMismatch(p, q)
    \/ KLRaises(p, Mixture(p, q))
    \/ KLRaises(q, Mixture(p, q))

\* jensen_shannon(p, q, base=2.0), when it does not raise
jensen_shannon(p, q) ==
    LET m == Mixture(p, q)
    IN  Mul(Fin(1, 2), Add(_kl_divergence(p, m), _kl_divergence(q, m)))

(***************************************************************************)
(* bookmaker_disagreement                                                  *)
(***************************************************************************)
\* "if fair:" -- a dict is truthy when it is not empty
Truthy(f) == DOMAIN f # {}

\* the loop of lines 102-106 with fair_list.insert(0, fair) for append
RECURSIVE FairListFromRev(_, _)
FairListFromRev(l, i) ==
    IF i > Len(l) THEN <<>>
    ELSE LET f == remove_vig(l[i]).ret
         IN  FairListFromRev(l, i + 1) \o (IF Truthy(f) THEN <<f>> ELSE <<>>)

\* the loop of lines 102-106 from position i on: the fair distributions of
\* the quote sets whose fair distribution is not empty, in input order
RECURSIVE FairListFrom(_, _)
FairListFrom(l, i) ==
    IF i > Len(l) THEN <<>>
    ELSE LET f == remove_vig(l[i]).ret
         IN  (IF Truthy(f) THEN <<f>> ELSE <<>>) \o FairListFrom(l, i + 1)

\* sorted(S) for a set of labels
RECURSIVE sorted(_)
sorted(S) ==
    IF S = {} THEN <<>>
    ELSE LET m == CHOOSE x \in S : \A y \in S : x <= y
         IN  <<m>> \o sorted(S \ {m})

\* fair.get(o, 1.0): a missing outcome padded with 1.0
GetPadOne(f, o) == IF o \in DOMAIN f THEN f[o] ELSE One

\* fair.get(o, 0.0)
Get(f, o) == IF o \in DOMAIN f THEN f[o] ELSE Zero

\* row = [fair.get(o, 0.0) for o in outcomes]
Row(f, outcomes) == [j \in 1..Len(outcomes) |-> Get(f, outcomes[j])]

\* sum of the numbers of a list
RECURSIVE SumSeqFrom(_, _)
SumSeqFrom(xs, i) ==
    IF i > Len(xs) THEN Zero ELSE Add(xs[i], SumSeqFrom(xs, i + 1))

SumSeq(xs) == SumSeqFrom(xs, 1)

\* [row[col] for row in matrix]
Column(matrix, col) == [i \in 1..Len(matrix) |-> matrix[i][col]]

\* mean_dist[col] without the division by float(n) of line 131
MeanDistSum(matrix, k, n) ==
    [col \in 1..k |-> SumSeq(Column(matrix, col))]

\* mean_dist[col]: the sum of the column divided by float(n)
MeanDist(matrix, k, n) ==
    [col \in 1..k |-> Div(SumSeq(Column(matrix, col)), IntNum(n))]

\* math.sqrt(x) raises ValueError for x < 0
SqrtRaises(x) == IsFin(x) /\ x.n < 0

\* math.sqrt(x), kept exact as the root of the rational x
Sqrt(x) == IF IsNaN(x) THEN NaN ELSE [k |-> "sqrt", n |-> x.n, d |-> x.d]

\* var = sum((v - mean_v) ** 2 for v in vals) / float(n)
Variance(vals, n) ==
    LET mean_v == Div(SumSeq(vals), IntNum(n))
        sq == [i \in 1..Len(vals) |->
                 Mul(Sub(vals[i], mean_v), Sub(vals[i], mean_v))]
    IN  Div(SumSeq(sq), IntNum(n))

\* mad = sum(abs(v - mean_v) for v in vals) / float(n)
MeanAbsDev(vals, n) ==
    LET mean_v == Div(SumSeq(vals), IntNum(n))
        dev == [i \in 1..Len(vals) |-> AbsNum(Sub(vals[i], mean_v))]
    IN  Div(SumSeq(dev), IntNum(n))

\* the position of outcome o in the list outcomes
IndexOf(outcomes, o) == CHOOSE j \in 1..Len(outcomes) : outcomes[j] = o

\* the no-data result with an empty per-bookmaker list added
NoDataWithList ==
    [jsd_mean |-> None,
     jsd_list |-> <<>>,
     per_outcome_std |-> EmptyDict,
     per_outcome_mad |-> EmptyDict,
     n_bookmakers |-> 0,
     outcomes |-> <<>>]

\* the result returned when n == 0
NoData ==
    [jsd_mean |-> None,
     per_outcome_std |-> EmptyDict,
     per_outcome_mad |-> EmptyDict,
     n_bookmakers |-> 0,
     outcomes |-> <<>>]

\* the no-data return left out
NoBookmakersNever(n) == FALSE

\* the guard of the no-data return: n == 0
NoBookmakers(n) == n = 0

\* The local variables of bookmaker_disagreement at its last line, computed
\* in the order of the code; each step hands the variables computed so far
\* to the next one.

\* lines 139-151: var, per_outcome_std and per_outcome_mad per outcome
WithDispersion(fair_list, outcomes, matrix, mean_dist, jsds, var) ==
    [fair_list |-> fair_list,
     outcomes_set |-> DOMAIN var,
     n |-> Len(fair_list),
     outcomes |-> outcomes,
     matrix |-> matrix,
     mean_dist |-> mean_dist,
     jsds |-> jsds,
     var |-> var,
     per_outcome_std |-> [o \in DOMAIN var |-> Sqrt(var[o])],
     per_outcome_mad |-> [o \in DOMAIN var |->
         MeanAbsDev(Column(matrix, IndexOf(outcomes, o)), Len(fair_list))]]

\* lines 133-142: jsds and var
WithMeanDist(fair_list, outcomes, matrix, mean_dist) ==
    WithDispersion(fair_list, outcomes, matrix, mean_dist,
        [i \in 1..Len(matrix) |-> jensen_shannon(matrix[i], mean_dist)],
        [o \in {outcomes[j] : j \in 1..Len(outcomes)} |->
            Variance(Column(matrix, IndexOf(outcomes, o)), Len(fair_list))])

\* lines 125-131: k and mean_dist
WithMatrix(fair_list, outcomes, matrix) ==
    WithMeanDist(fair_list, outcomes, matrix,
        MeanDist(matrix, Len(outcomes), Len(fair_list)))

\* lines 119-123: matrix
WithOutcomes(fair_list, outcomes) ==
    WithMatrix(fair_list, outcomes,
        [i \in 1..Len(fair_list) |-> Row(fair_list[i], outcomes)])

\* lines 101-117: outcomes_set and outcomes
WithFairList(fair_list) ==
    WithOutcomes(fair_list,
        sorted(UNION {DOMAIN fair_list[i] : i \in 1..Len(fair_list)}))

\* lines 100-106: fair_list (the lists and dicts of lines 117-151 are empty
\* when fair_list is empty)
Locals(l) == WithFairList(FairListFrom(l, 1))

\* an exception escapes lines 117-160, given the local variables
ScoreRaises(loc) ==
    \/ \E i \in 1..loc.n :
         \/ LengthMismatch(loc.matrix[i], loc.mean_dist)
         \/ KLRaises(loc.matrix[i], Mixture(loc.matrix[i], loc.mean_dist))
         \/ KLRaises(loc.mean_dist, Mixture(loc.matrix[i], loc.mean_dist))
    \/ \E o \in loc.outcomes_set : SqrtRaises(loc.var[o])
    \/ DivRaises(SumSeq(loc.jsds), IntNum(Len(loc.jsds)))

\* the value bookmaker_disagreement(l) returns or the exception it raises,
\* given its local variables:
\* [raised |-> an exception escaped, ret |-> the returned dict]
Return(l, loc) ==
    IF \E i \in 1..Len(l) : remove_vig(l[i]).raised
    THEN [raised |-> TRUE, ret |-> NoData]
    ELSE IF NoBookmakers(loc.n)
    THEN [raised |-> FALSE, ret |-> NoData]
    ELSE IF ScoreRaises(loc) THEN [raised |-> TRUE, ret |-> NoData]
    ELSE [raised |-> FALSE,
          ret |-> [jsd_mean |-> Div(SumSeq(loc.jsds), IntNum(Len(loc.jsds))),
                   jsd_list |-> loc.jsds,
                   per_outcome_std |-> loc.per_outcome_std,
                   per_outcome_mad |-> loc.per_outcome_mad,
                   n_bookmakers |-> loc.n,
                   outcomes |-> loc.outcomes]]

bookmaker_disagreement(l) == Return(l, Locals(l))

(***************************************************************************)
(* Inputs                                                                  *)
(***************************************************************************)
\* finite positive decimal prices
Prices == {Fin(h, 2) : h \in 3..MaxHalfPrice}

\* prices that are not a positive finite number
BadPrices == {None, Str, Fin(-1, 1), Zero, NaN, Inf}

\* all dictionaries from a subset of the labels L to the values V
Dicts(L, V) == UNION {[D -> V] : D \in SUBSET L}

VigInputs == Dicts(1..MaxLabels, Prices \cup BadPrices)

NoResult == [raised |-> FALSE, ret |-> EmptyDict]

\* nothing constructed, nothing returned yet
Nothing == [raised |-> FALSE, ret |-> None]

\* the analyzer's non-fair BDI block before it ran
AnalysisIdle ==
    /\ odds_1x = <<>>
    /\ bdi = Nothing
    /\ csv_bdi = Nothing

\* the tools around the scorer before any of them ran
ToolsIdle ==
    /\ calls = <<>>
    /\ over_odds = EmptyDict
    /\ under_odds = EmptyDict
    /\ fair_bdi = Nothing
    /\ rows = <<>>
    /\ out_rows = [raised |-> FALSE, ret |-> <<>>]
    /\ cell = [present |-> FALSE, parts |-> <<>>]
    /\ bdi_row = Nothing
    /\ odds_data = Nothing
    /\ AnalysisIdle

NoJsd == [raised |-> FALSE, ret |-> Zero]

(***************************************************************************)
(* Specification of the calls of remove_vig                                *)
(***************************************************************************)
InitVig ==
    /\ odds \in VigInputs
    /\ fair = NoResult
    /\ bookmaker_odds_list = <<>>
    /\ locals = Locals(<<>>)
    /\ result = [raised |-> FALSE, ret |-> NoData]
    /\ dist_p = <<>>
    /\ dist_q = <<>>
    /\ jsd = NoJsd
    /\ pc = "call"
    /\ ToolsIdle

CallRemoveVig ==
    /\ pc = "call"
    /\ fair' = remove_vig(odds)
    /\ pc' = "done"
    /\ UNCHANGED <<odds, bookmaker_odds_list, locals, result,
                   dist_p, dist_q, jsd, tools, analysis>>

NextVig == CallRemoveVig

SpecVig == InitVig /\ [][NextVig]_vars

(***************************************************************************)
(* Specification of the calls of bookmaker_disagreement                    *)
(***************************************************************************)
\* the labels of the quote sets of a list: a two-way market (Over / Under)
ListLabels == {1, 2}

\* quote sets with finite positive prices only: both, one or no label quoted
GoodQuoteSets == Dicts(ListLabels, {Fin(3, 2), Fin(2, 1)})

\* quote sets with a price that is not a positive finite number
BadQuoteSets ==
    {[k \in {1} |-> b] : b \in {Str, NaN, Inf}}
      \cup {[k \in {1, 2} |-> IF k = 1 THEN b ELSE Fin(2, 1)] : b \in {Str, NaN, Inf}}
      \cup {[k \in {1, 2} |-> IF k = 1 THEN None ELSE Fin(-1, 1)]}

ListQuoteSets == GoodQuoteSets \cup BadQuoteSets

\* all lists of at most n elements of S
RECURSIVE ListsUpTo(_, _)
ListsUpTo(S, n) ==
    IF n = 0 THEN {<<>>}
    ELSE LET shorter == ListsUpTo(S, n - 1)
         IN  shorter \cup {Append(l, q) : l \in shorter, q \in S}

\* the self-check example of the module: "Over 2.5" is label 1 and
\* "Under 2.5" label 2
bookmakers ==
    << [k \in {1, 2} |-> IF k = 1 THEN Fin(180, 100) ELSE Fin(205, 100)],
       [k \in {1, 2} |-> IF k = 1 THEN Fin(185, 100) ELSE Fin(200, 100)],
       [k \in {1, 2} |-> IF k = 1 THEN Fin(190, 100) ELSE Fin(195, 100)] >>

ListInputs == ListsUpTo(ListQuoteSets, MaxBookmakers) \cup {bookmakers}

Init ==
    /\ odds = EmptyDict
    /\ fair = NoResult
    /\ bookmaker_odds_list \in ListInputs
    /\ locals = Locals(<<>>)
    /\ result = [raised |-> FALSE, ret |-> NoData]
    /\ dist_p = <<>>
    /\ dist_q = <<>>
    /\ jsd = NoJsd
    /\ pc = "call"
    /\ ToolsIdle

CallBookmakerDisagreement ==
    /\ pc = "call"
    /\ locals' = Locals(bookmaker_odds_list)
    /\ result' = Return(bookmaker_odds_list, locals')
    /\ pc' = "done"
    /\ UNCHANGED <<odds, fair, bookmaker_odds_list, dist_p, dist_q, jsd,
                   tools, analysis>>

Next == CallBookmakerDisagreement

Spec == Init /\ [][Next]_vars

(***************************************************************************)
(* Specification of the calls of jensen_shannon                            *)
(***************************************************************************)
\* the multiples of 1/GridSteps in [0, 1]
GridPoints == {Fin(a, GridSteps) : a \in 0..GridSteps}

\* the neighbours in [0, 1] of the grid points
NearPoints ==
    {Fin(a, GridSteps * NearFactor) :
        a \in {g * NearFactor + s : g \in 0..GridSteps, s \in {-1, 1}}
              \cap 0..(GridSteps * NearFactor)}

\* probability distributions over two outcomes
BinaryDists == {<<x, Sub(One, x)>> : x \in GridPoints \cup NearPoints}

InitJS ==
    /\ odds = EmptyDict
    /\ fair = NoResult
    /\ bookmaker_odds_list = <<>>
    /\ locals = Locals(<<>>)
    /\ result = [raised |-> FALSE, ret |-> NoData]
    /\ dist_p \in BinaryDists
    /\ dist_q \in BinaryDists
    /\ jsd = NoJsd
    /\ pc = "call"
    /\ ToolsIdle

CallJensenShannon ==
    /\ pc = "call"
    /\ jsd' = IF JSRaises(dist_p, dist_q)
              THEN [raised |-> TRUE, ret |-> Zero]
              ELSE [raised |-> FALSE, ret |-> jensen_shannon(dist_p, dist_q)]
    /\ pc' = "done"
    /\ UNCHANGED <<odds, fair, bookmaker_odds_list, locals, result,
                   dist_p, dist_q, tools, analysis>>

NextJS == CallJensenShannon

SpecJS == InitJS /\ [][NextJS]_vars

(***************************************************************************)
(* Vocabulary of the claims                                                *)
(***************************************************************************)
\* a valid price: a number with price > 0
PriceValid(v) == (v.k = "fin" /\ v.n > 0) \/ v.k = "inf"

\* an invalid price: None, non-numeric, or a number <= 0
PriceInvalid(v) == v.k \in {"none", "str"} \/ (v.k = "fin" /\ v.n <= 0)

\* the labels of the valid entries of a quote set
ValidKeys(q) == {k \in DOMAIN q : PriceValid(q[k])}

\* no price of the quote set is nan or inf
FinitePrices(q) == \A k \in DOMAIN q : q[k].k \notin {"nan", "inf"}

\* a number in [0, 1]
InUnit(x) == x.k = "fin" /\ 0 <= x.n /\ x.n <= x.d

\* a probability distribution: values in [0, 1] that sum to 1
IsDistribution(f) ==
    /\ \A k \in DOMAIN f : InUnit(f[k])
    /\ SumVals(f) = One

\* the quote set restricted to the labels in K
Restrict(q, K) == [k \in K |-> q[k]]

(***************************************************************************)
(* Claims about remove_vig, checked under SpecVig                          *)
(***************************************************************************)
\* C1: for every quote set with at least one entry with price > 0,
\* remove_vig returns values in [0, 1] that sum to 1.
C1_Normalized ==
    (pc = "done" /\ ValidKeys(odds) # {})
        => (~fair.raised /\ IsDistribution(fair.ret))

\* C1 restricted to quote sets without nan and inf prices.
C1_NormalizedFinite ==
    (pc = "done" /\ ValidKeys(odds) # {} /\ FinitePrices(odds))
        => (~fair.raised /\ IsDistribution(fair.ret))

\* C2: remove_vig never raises; the result has exactly the labels of the
\* valid (price > 0) entries and equals remove_vig of the input restricted
\* to its valid entries.
C2_SkipsInvalid ==
    pc = "done" =>
        /\ ~fair.raised
        /\ DOMAIN fair.ret = ValidKeys(odds)
        /\ fair.ret = remove_vig(Restrict(odds, ValidKeys(odds))).ret

\* C2 restricted to quote sets without nan and inf prices.
C2_SkipsInvalidFinite ==
    (pc = "done" /\ FinitePrices(odds)) =>
        /\ ~fair.raised
        /\ DOMAIN fair.ret = ValidKeys(odds)
        /\ fair.ret = remove_vig(Restrict(odds, ValidKeys(odds))).ret

\* C2, first part alone: remove_vig never raises.
C2_NeverRaises == pc = "done" => ~fair.raised

\* C3: remove_vig returns the empty mapping, without raising, exactly when
\* the input has no entry with price > 0.
C3_EmptyIffNoValid ==
    pc = "done" =>
        /\ ~fair.raised
        /\ (DOMAIN fair.ret = {}) <=> (ValidKeys(odds) = {})

\* C3 restricted to quote sets without nan and inf prices.
C3_EmptyIffNoValidFinite ==
    (pc = "done" /\ FinitePrices(odds)) =>
        /\ ~fair.raised
        /\ (DOMAIN fair.ret = {}) <=> (ValidKeys(odds) = {})

\* C4: when all k valid prices of a quote set are equal, remove_vig assigns
\* probability 1/k to each of the k outcomes.
C4_EqualPrices ==
    LET V == ValidKeys(odds)
    IN  (pc = "done" /\ V # {} /\ \A a, b \in V : odds[a] = odds[b])
            => \A a \in V :
                  /\ a \in DOMAIN fair.ret
                  /\ fair.ret[a] = Fin(1, Cardinality(V))

\* C4 restricted to quote sets without nan and inf prices.
C4_EqualPricesFinite ==
    LET V == ValidKeys(odds)
    IN  (/\ pc = "done" /\ V # {} /\ FinitePrices(odds)
         /\ \A a, b \in V : odds[a] = odds[b])
            => \A a \in V :
                  /\ a \in DOMAIN fair.ret
                  /\ fair.ret[a] = Fin(1, Cardinality(V))

(***************************************************************************)
(* Claims about bookmaker_disagreement, checked under Spec                 *)
(***************************************************************************)
\* the quote set has a non-empty fair distribution
Survives(q) == DOMAIN remove_vig(q).ret # {}

\* the input quote sets that survive, in input order
Survivors == SelectSeq(bookmaker_odds_list, Survives)

\* every price of the quote set is None, non-numeric or <= 0
AllInvalid(q) == \A k \in DOMAIN q : PriceInvalid(q[k])

\* the elements of a list
Elems(xs) == {xs[j] : j \in 1..Len(xs)}

\* a list in strictly increasing order: sorted and without duplicates
StrictlySorted(xs) == \A a, b \in 1..Len(xs) : a < b => xs[a] < xs[b]

\* C5: whenever no input quote set yields a non-empty fair distribution (in
\* particular for the empty list and for a list of empty or all-invalid
\* quote sets) the result is the no-data result, and nothing is raised.
C5_NoDataResult ==
    (/\ pc = "done"
     /\ \/ \A j \in 1..Len(bookmaker_odds_list) :
             ~Survives(bookmaker_odds_list[j])
        \/ \A j \in 1..Len(bookmaker_odds_list) :
             AllInvalid(bookmaker_odds_list[j]))
        => result = [raised |-> FALSE,
                     ret |-> [jsd_mean |-> None,
                              per_outcome_std |-> <<>>,
                              per_outcome_mad |-> <<>>,
                              n_bookmakers |-> 0,
                              outcomes |-> <<>>]]

\* C5 witness: a full list of non-empty quote sets, all of them all-invalid,
\* scored as no data.
C5_Witness ==
    /\ pc = "done"
    /\ Len(bookmaker_odds_list) = MaxBookmakers
    /\ \A j \in 1..Len(bookmaker_odds_list) :
         /\ DOMAIN bookmaker_odds_list[j] # {}
         /\ AllInvalid(bookmaker_odds_list[j])
    /\ result.ret.n_bookmakers = 0

\* C6: bookmaker_disagreement never raises, whatever the prices; every
\* matrix row and the consensus vector have length len(outcomes), so the
\* length check of jensen_shannon never fails.
C6_NeverRaises ==
    pc = "done" =>
        /\ ~result.raised
        /\ Len(locals.mean_dist) = Len(locals.outcomes)
        /\ \A j \in 1..Len(locals.matrix) :
             /\ Len(locals.matrix[j]) = Len(locals.outcomes)
             /\ ~LengthMismatch(locals.matrix[j], locals.mean_dist)

\* C6 witness: a list with a non-numeric price, a None price and a
\* non-positive price, and two surviving bookmakers of which one misses an
\* outcome of the union.
C6_Witness ==
    /\ pc = "done"
    /\ \E j \in 1..Len(bookmaker_odds_list) :
         \E k \in DOMAIN bookmaker_odds_list[j] :
            bookmaker_odds_list[j][k] = Str
    /\ \E j \in 1..Len(bookmaker_odds_list) :
         \E k \in DOMAIN bookmaker_odds_list[j] :
            bookmaker_odds_list[j][k] = None
    /\ result.ret.n_bookmakers = 2
    /\ Len(result.ret.outcomes) = 2
    /\ \E j \in 1..Len(locals.fair_list) :
         DOMAIN locals.fair_list[j] # Elems(result.ret.outcomes)

\* C7: n_bookmakers is the number of input quote sets with a non-empty fair
\* distribution, which are the quote sets with at least one price > 0.
C7_CountsSurvivors ==
    pc = "done" =>
        /\ result.ret.n_bookmakers = Len(Survivors)
        /\ result.ret.n_bookmakers =
             Cardinality({j \in 1..Len(bookmaker_odds_list) :
                            ValidKeys(bookmaker_odds_list[j]) # {}})

\* C7 restricted to lists without nan and inf prices.
C7_CountsSurvivorsFinite ==
    (/\ pc = "done"
     /\ \A j \in 1..Len(bookmaker_odds_list) :
          FinitePrices(bookmaker_odds_list[j]))
        => /\ result.ret.n_bookmakers = Len(Survivors)
           /\ result.ret.n_bookmakers =
                Cardinality({j \in 1..Len(bookmaker_odds_list) :
                               ValidKeys(bookmaker_odds_list[j]) # {}})

\* C8: the per-bookmaker JSD list has n_bookmakers elements, and its i-th
\* element is the JSD against the consensus of the i-th surviving input
\* quote set.
C8_JsdListOrder ==
    (pc = "done" /\ result.ret.n_bookmakers >= 1) =>
        /\ Len(result.ret.jsd_list) = result.ret.n_bookmakers
        /\ Len(result.ret.jsd_list) = Len(Survivors)
        /\ \A j \in 1..Len(Survivors) :
             result.ret.jsd_list[j] =
                jensen_shannon(Row(remove_vig(Survivors[j]).ret,
                                   result.ret.outcomes),
                               locals.mean_dist)

\* C8 witness: a skipped quote set comes first, and the two survivors that
\* follow it have different JSDs.
C8_Witness ==
    /\ pc = "done"
    /\ Len(bookmaker_odds_list) = 3
    /\ ~Survives(bookmaker_odds_list[1])
    /\ result.ret.n_bookmakers = 2
    /\ result.ret.jsd_list[1].k = "fin"
    /\ result.ret.jsd_list[2].k = "fin"
    /\ result.ret.jsd_list[1] # result.ret.jsd_list[2]

\* the six fields of the data model
SixFields ==
    {"jsd_mean", "jsd_list", "per_outcome_std", "per_outcome_mad",
     "n_bookmakers", "outcomes"}

\* C9, as claimed: every result, the no-data result included, carries all
\* six fields.
C9_AllSixFields == pc = "done" => SixFields \subseteq DOMAIN result.ret

\* C9, amended: a result with n_bookmakers >= 1 carries exactly the six
\* fields; the no-data result carries the other five and no per-bookmaker
\* JSD list.
C9_Fields ==
    (pc = "done" /\ ~result.raised) =>
        DOMAIN result.ret =
            IF result.ret.n_bookmakers = 0
            THEN SixFields \ {"jsd_list"}
            ELSE SixFields

\* C9 witness: a no-data result for a non-empty list.
C9_Witness ==
    /\ pc = "done"
    /\ Len(bookmaker_odds_list) >= 1
    /\ result.ret.n_bookmakers = 0
    /\ "jsd_list" \notin DOMAIN result.ret

\* C10: outcomes is the sorted, duplicate-free union of the labels that have
\* a valid price in at least one surviving quote set; per_outcome_std and
\* per_outcome_mad have exactly these labels as keys.
C10_Outcomes ==
    pc = "done" =>
        /\ StrictlySorted(result.ret.outcomes)
        /\ Elems(result.ret.outcomes) =
             UNION {ValidKeys(Survivors[j]) : j \in 1..Len(Survivors)}
        /\ DOMAIN result.ret.per_outcome_std = Elems(result.ret.outcomes)
        /\ DOMAIN result.ret.per_outcome_mad = Elems(result.ret.outcomes)

\* C10 restricted to lists without nan and inf prices.
C10_OutcomesFinite ==
    (/\ pc = "done"
     /\ \A j \in 1..Len(bookmaker_odds_list) :
          FinitePrices(bookmaker_odds_list[j]))
        => /\ StrictlySorted(result.ret.outcomes)
           /\ Elems(result.ret.outcomes) =
                UNION {ValidKeys(Survivors[j]) : j \in 1..Len(Survivors)}
           /\ DOMAIN result.ret.per_outcome_std = Elems(result.ret.outcomes)
           /\ DOMAIN result.ret.per_outcome_mad = Elems(result.ret.outcomes)

\* no price of any quote set of the list is nan or inf
FiniteList ==
    \A j \in 1..Len(bookmaker_odds_list) : FinitePrices(bookmaker_odds_list[j])

\* C11, the entry of the matrix for the j-th surviving quote set and the
\* outcome o, as claimed: 0.0 when the quote set has no valid price for o,
\* and otherwise the fair probability of o among its validly priced entries
C11_Entry(j, o) ==
    LET q == Survivors[j]
    IN  IF o \in ValidKeys(q)
        THEN remove_vig(Restrict(q, ValidKeys(q))).ret[o]
        ELSE Zero

\* C11: a surviving bookmaker that does not quote, with a valid price, an
\* outcome of the union is still counted in n_bookmakers and enters the
\* matrix with probability 0.0 for that outcome; its other probabilities are
\* its fair probabilities, not renormalised.
C11_MissingAsZero ==
    (pc = "done" /\ locals.n >= 1) =>
        /\ result.ret.n_bookmakers = Len(Survivors)
        /\ Len(locals.matrix) = Len(Survivors)
        /\ \A j \in 1..Len(Survivors) :
             \A c \in 1..Len(locals.outcomes) :
                locals.matrix[j][c] = C11_Entry(j, locals.outcomes[c])

\* C11 restricted to lists without nan and inf prices.
C11_MissingAsZeroFinite == FiniteList => C11_MissingAsZero

\* a surviving bookmaker without a valid price for an outcome of the union,
\* in a list without nan and inf prices
C11_WitnessFinite ==
    /\ pc = "done"
    /\ FiniteList
    /\ result.ret.n_bookmakers = 2
    /\ \E j \in 1..Len(Survivors) :
         \E c \in 1..Len(locals.outcomes) :
            /\ locals.outcomes[c] \notin ValidKeys(Survivors[j])
            /\ locals.matrix[j][c] = Zero
            /\ \E c2 \in 1..Len(locals.outcomes) : locals.matrix[j][c2] = One

\* C12: a bookmaker whose quote set misses an outcome that other bookmakers
\* quote is skipped: every bookmaker that is counted in n_bookmakers and
\* enters the consensus and the JSD list quotes every outcome of the union.
C12_MissingSkipped ==
    pc = "done" =>
        \A j \in 1..Len(locals.fair_list) :
            DOMAIN locals.fair_list[j] = Elems(locals.outcomes)

\* the arithmetic mean of a non-empty list of numbers
Mean(xs) == Div(SumSeq(xs), IntNum(Len(xs)))

\* C13: for n >= 1 surviving bookmakers the consensus has, for each outcome,
\* the arithmetic mean of the outcome's probability over the n matrix rows,
\* and it is a Fair Distribution: its entries lie in [0, 1] and sum to 1,
\* also when some bookmakers miss some outcomes.
C13_Consensus ==
    (pc = "done" /\ locals.n >= 1) =>
        /\ Len(locals.mean_dist) = Len(locals.outcomes)
        /\ \A c \in 1..Len(locals.outcomes) :
             /\ locals.mean_dist[c] = Mean(Column(locals.matrix, c))
             /\ InUnit(locals.mean_dist[c])
        /\ SumSeq(locals.mean_dist) = One

\* C13 restricted to lists without nan and inf prices.
C13_ConsensusFinite == FiniteList => C13_Consensus

\* three surviving bookmakers without nan and inf prices, one of which
\* misses an outcome of the union, and a consensus that is not uniform
C13_WitnessFinite ==
    /\ pc = "done"
    /\ FiniteList
    /\ locals.n = 3
    /\ Len(locals.outcomes) = 2
    /\ \E j \in 1..3 : DOMAIN locals.fair_list[j] # Elems(locals.outcomes)
    /\ locals.mean_dist[1] # locals.mean_dist[2]

(***************************************************************************)
(* Claims about jensen_shannon, checked under SpecJS                       *)
(***************************************************************************)
\* C14: for any two probability distributions p and q over the same two
\* outcomes, jensen_shannon(p, q) in base 2 does not raise, equals
\* jensen_shannon(q, p) and lies in [0, 1].
C14_SymmetricBounded ==
    pc = "done" =>
        /\ ~jsd.raised
        /\ jsd.ret = jensen_shannon(dist_q, dist_p)
        /\ InUnit(jsd.ret)

\* C14, symmetry and the upper bound alone.
C14_SymmetricAtMostOne ==
    pc = "done" =>
        /\ ~jsd.raised
        /\ jsd.ret = jensen_shannon(dist_q, dist_p)
        /\ jsd.ret.k = "fin" /\ jsd.ret.n <= jsd.ret.d

\* C14 restricted to distributions that are equal or at least 1/GridSteps
\* apart.
C14_SymmetricBoundedApart ==
    (dist_p \in {<<x, Sub(One, x)>> : x \in GridPoints}
        /\ dist_q \in {<<x, Sub(One, x)>> : x \in GridPoints})
            => C14_SymmetricBounded

\* two different distributions with a divergence below 0
C14_NegativeReached ==
    /\ pc = "done"
    /\ dist_p # dist_q
    /\ jsd.ret.n < 0

(***************************************************************************)
(* More claims about bookmaker_disagreement, checked under Spec            *)
(***************************************************************************)
\* every JSD and every dispersion statistic of the result is 0.0
ZeroDisagreement ==
    /\ result.ret.jsd_mean = Zero
    /\ \A j \in 1..Len(result.ret.jsd_list) : result.ret.jsd_list[j] = Zero
    /\ \A o \in DOMAIN result.ret.per_outcome_std :
         result.ret.per_outcome_std[o] = Sqrt(Zero)
    /\ \A o \in DOMAIN result.ret.per_outcome_mad :
         result.ret.per_outcome_mad[o] = Zero

\* all surviving bookmakers have the same fair distribution
IdenticalFair ==
    \A i, j \in 1..Len(locals.fair_list) :
        locals.fair_list[i] = locals.fair_list[j]

\* C15: if all n >= 1 surviving bookmakers have identical fair distributions,
\* jsd_mean is 0.0, every per-bookmaker JSD is 0, and per_outcome_std and
\* per_outcome_mad are 0.0 for every outcome.
C15_ZeroDisagreement ==
    (pc = "done" /\ locals.n >= 1 /\ IdenticalFair)
        => (~result.raised /\ ZeroDisagreement)

\* C15 restricted to lists without nan and inf prices.
C15_ZeroDisagreementFinite == FiniteList => C15_ZeroDisagreement

\* three surviving bookmakers without nan and inf prices, with different
\* quote sets and one fair distribution over two outcomes that is not uniform
C15_WitnessFinite ==
    /\ pc = "done"
    /\ FiniteList
    /\ locals.n = 3
    /\ IdenticalFair
    /\ Len(locals.outcomes) = 2
    /\ locals.mean_dist[1] # locals.mean_dist[2]
    /\ ZeroDisagreement

\* C16: for a list with exactly one surviving quote set, n_bookmakers is 1,
\* the consensus is that bookmaker's own distribution, jsd_mean is 0.0 and
\* per_outcome_std and per_outcome_mad are 0.0 for every outcome.
C16_SingleBookmaker ==
    (pc = "done" /\ Len(Survivors) = 1) =>
        /\ ~result.raised
        /\ result.ret.n_bookmakers = 1
        /\ locals.mean_dist = locals.matrix[1]
        /\ ZeroDisagreement

\* C16 restricted to lists without nan and inf prices.
C16_SingleBookmakerFinite == FiniteList => C16_SingleBookmaker

\* one surviving bookmaker with a fair distribution that is not uniform, in
\* a list of three quote sets without nan and inf prices
C16_WitnessFinite ==
    /\ pc = "done"
    /\ FiniteList
    /\ Len(bookmaker_odds_list) = 3
    /\ Len(Survivors) = 1
    /\ result.ret.n_bookmakers = 1
    /\ Len(locals.outcomes) = 2
    /\ locals.mean_dist[1] # locals.mean_dist[2]
    /\ ZeroDisagreement

\* the population variance of a non-empty list: the mean of the squared
\* deviations from the mean (the sum divided by n, not by n - 1)
PopulationVariance(xs) ==
    Mean([i \in 1..Len(xs) |-> Mul(Sub(xs[i], Mean(xs)), Sub(xs[i], Mean(xs)))])

\* the mean absolute deviation from the mean of a non-empty list
MeanAbsoluteDeviation(xs) ==
    Mean([i \in 1..Len(xs) |-> AbsNum(Sub(xs[i], Mean(xs)))])

\* a number or a square root that is >= 0
NonNegative(x) == x.k \in {"fin", "sqrt"} /\ x.n >= 0

\* C17: for each outcome, per_outcome_std is the population standard
\* deviation and per_outcome_mad the mean absolute deviation from the mean
\* of the outcome's matrix column over the n surviving bookmakers (missing
\* outcomes counted as 0.0); both are >= 0 for every input.
C17_Dispersion ==
    (pc = "done" /\ locals.n >= 1) =>
        \A c \in 1..Len(locals.outcomes) :
            LET o == locals.outcomes[c]
                col == Column(locals.matrix, c)
            IN  /\ Len(col) = result.ret.n_bookmakers
                /\ result.ret.per_outcome_std[o] = Sqrt(PopulationVariance(col))
                /\ result.ret.per_outcome_mad[o] = MeanAbsoluteDeviation(col)
                /\ NonNegative(result.ret.per_outcome_std[o])
                /\ NonNegative(result.ret.per_outcome_mad[o])

\* C17 restricted to lists without nan and inf prices.
C17_DispersionFinite == FiniteList => C17_Dispersion

\* three surviving bookmakers without nan and inf prices, one of them
\* missing an outcome, and a dispersion that is not zero
C17_WitnessFinite ==
    /\ pc = "done"
    /\ FiniteList
    /\ locals.n = 3
    /\ \E j \in 1..3 : DOMAIN locals.fair_list[j] # Elems(locals.outcomes)
    /\ \E o \in DOMAIN result.ret.per_outcome_mad :
         /\ result.ret.per_outcome_mad[o].n > 0
         /\ result.ret.per_outcome_std[o].n > 0

\* C18: for every input with n >= 1 surviving bookmakers, jsd_mean is the
\* arithmetic mean of the n per-bookmaker JSD values, each computed in base 2
\* between the bookmaker's matrix row and the consensus, and lies in [0, 1].
C18_JsdMean ==
    (pc = "done" /\ locals.n >= 1) =>
        /\ ~result.raised
        /\ Len(result.ret.jsd_list) = result.ret.n_bookmakers
        /\ \A j \in 1..Len(result.ret.jsd_list) :
             result.ret.jsd_list[j] =
                jensen_shannon(locals.matrix[j], locals.mean_dist)
        /\ result.ret.jsd_mean = Mean(result.ret.jsd_list)
        /\ InUnit(result.ret.jsd_mean)

\* C18 restricted to lists without nan and inf prices.
C18_JsdMeanFinite == FiniteList => C18_JsdMean

\* three surviving bookmakers without nan and inf prices, with three
\* different JSDs
C18_WitnessFinite ==
    /\ pc = "done"
    /\ FiniteList
    /\ locals.n = 3
    /\ result.ret.jsd_list[1] # result.ret.jsd_list[2]
    /\ result.ret.jsd_list[2] # result.ret.jsd_list[3]
    /\ result.ret.jsd_list[1] # result.ret.jsd_list[3]
    /\ result.ret.jsd_mean.n > 0

\* x is approximately n/d: within 0.0005 of it
Approx(x, n, d) ==
    /\ x.k = "fin"
    /\ AbsNum(Sub(x, Fin(n, d))).n * 2000 <= AbsNum(Sub(x, Fin(n, d))).d

\* the fair probabilities of "Over 2.5" (label 1) of the three bookmakers
OverColumn == Column(locals.matrix, 1)

\* C19, as claimed: for the three quote sets of the self-check example the
\* fair probabilities of "Over 2.5" are approximately [0.5325, 0.5309,
\* 0.5225], the consensus for "Over 2.5" is approximately 0.529,
\* n_bookmakers is 3 and jsd_mean is strictly positive.
C19_ExampleAsClaimed ==
    (pc = "done" /\ bookmaker_odds_list = bookmakers) =>
        /\ Approx(OverColumn[1], 5325, 10000)
        /\ Approx(OverColumn[2], 5309, 10000)
        /\ Approx(OverColumn[3], 5225, 10000)
        /\ Approx(locals.mean_dist[1], 529, 1000)
        /\ result.ret.n_bookmakers = 3
        /\ result.ret.jsd_mean.k = "fin" /\ result.ret.jsd_mean.n > 0

\* C19, amended: the fair probabilities of "Over 2.5" are approximately
\* [0.5325, 0.5195, 0.5065] (exactly 41/77, 40/77 and 39/77), the consensus
\* is approximately 0.5195, n_bookmakers is 3 and jsd_mean is strictly
\* positive and below 0.001.
C19_Example ==
    (pc = "done" /\ bookmaker_odds_list = bookmakers) =>
        /\ ~result.raised
        /\ OverColumn = <<Fin(41, 77), Fin(40, 77), Fin(39, 77)>>
        /\ Approx(OverColumn[1], 5325, 10000)
        /\ Approx(OverColumn[2], 5195, 10000)
        /\ Approx(OverColumn[3], 5065, 10000)
        /\ Approx(locals.mean_dist[1], 5195, 10000)
        /\ result.ret.outcomes = <<1, 2>>
        /\ result.ret.n_bookmakers = 3
        /\ result.ret.jsd_mean.k = "fin" /\ result.ret.jsd_mean.n > 0
        /\ result.ret.jsd_mean.n * 1000 < result.ret.jsd_mean.d

\* C19 witness: the self-check example has been scored.
C19_Witness ==
    /\ pc = "done"
    /\ bookmaker_odds_list = bookmakers
    /\ result.ret.n_bookmakers = 3
    /\ Len(result.ret.jsd_list) = 3

\* x < y for finite numbers
Less(x, y) == Sub(x, y).n < 0

\* the prices quoted for outcome o by the bookmakers of the list l
QuotedPrices(l, o) ==
    {l[j][o] : j \in {i \in 1..Len(l) : o \in DOMAIN l[i]}}

MaxPrice(S) == CHOOSE x \in S : \A y \in S : ~Less(x, y)

MinPrice(S) == CHOOSE x \in S : \A y \in S : ~Less(y, x)

\* the spread between the bookmakers' prices for outcome o
Spread(l, o) == Sub(MaxPrice(QuotedPrices(l, o)), MinPrice(QuotedPrices(l, o)))

\* the list l with the price of bookmaker j for outcome o replaced by v
WithPrice(l, j, o, v) == [l EXCEPT ![j][o] = v]

\* the prices a quoted price is moved to
MovedPrices == {Fin(5, 4), Fin(3, 2), Fin(2, 1), Fin(5, 2), Fin(3, 1)}

\* at least two bookmakers, each quoting both outcomes at a price > 1
CompleteList ==
    /\ Len(bookmaker_odds_list) >= 2
    /\ \A j \in 1..Len(bookmaker_odds_list) :
         /\ DOMAIN bookmaker_odds_list[j] = ListLabels
         /\ \A o \in ListLabels :
              /\ bookmaker_odds_list[j][o].k = "fin"
              /\ Less(One, bookmaker_odds_list[j][o])

\* the jsd_mean returned for the list l
JsdMeanOf(l) == bookmaker_disagreement(l).ret.jsd_mean

AgreeElsewhere(l, o) ==
    \A o2 \in ListLabels \ {o} : Cardinality(QuotedPrices(l, o2)) = 1

\* bookmaker j quotes the highest price for o and v is higher still, or the
\* lowest and v is lower still
Outward(l, j, o, v) ==
    \/ l[j][o] = MaxPrice(QuotedPrices(l, o)) /\ Less(l[j][o], v)
    \/ l[j][o] = MinPrice(QuotedPrices(l, o)) /\ Less(v, l[j][o])

MaxCalls == 3

\* a remove_vig that deletes the entries it skips from its argument
OddsAfterRemoveVigPopping(o) ==
    [k \in {j \in DOMAIN o : Entry(o[j]).st = "ok"} |-> o[k]]

\* the dict passed to remove_vig, after the call: lines 51-66 read odds
\* and write only the new dict raw
OddsAfterRemoveVig(o) == o

\* the list passed to bookmaker_disagreement, after the call: the list is
\* only iterated (line 102) and each element only passed to remove_vig
ListAfterBookmakerDisagreement(l) ==
    [j \in 1..Len(l) |-> OddsAfterRemoveVig(l[j])]

\* the quote sets of the calls in a row: complete, partial, with entries
\* that are skipped, and empty
PureQuoteSets ==
    { [k \in {1, 2} |-> IF k = 1 THEN Fin(3, 2) ELSE Fin(2, 1)],
      [k \in {1} |-> Fin(2, 1)],
      [k \in {1, 2} |-> IF k = 1 THEN None ELSE Fin(2, 1)],
      [k \in {1, 2} |-> IF k = 1 THEN Fin(2, 1) ELSE Fin(-1, 1)],
      EmptyDict }

\* the lists of the calls in a row: no, one or two quote sets
PureLists == ListsUpTo(PureQuoteSets, 2)

InitPure ==
    /\ odds \in PureQuoteSets
    /\ fair = NoResult
    /\ bookmaker_odds_list \in PureLists
    /\ locals = Locals(<<>>)
    /\ result = [raised |-> FALSE, ret |-> NoData]
    /\ dist_p = <<>>
    /\ dist_q = <<>>
    /\ jsd = NoJsd
    /\ pc = "call"
    /\ calls = <<>>
    /\ over_odds = EmptyDict
    /\ under_odds = EmptyDict
    /\ fair_bdi = Nothing
    /\ rows = <<>>
    /\ out_rows = [raised |-> FALSE, ret |-> <<>>]
    /\ cell = [present |-> FALSE, parts |-> <<>>]
    /\ bdi_row = Nothing
    /\ odds_data = Nothing
    /\ AnalysisIdle

\* fair = remove_vig(odds), on the dict odds
AgainRemoveVig ==
    /\ Len(calls) < MaxCalls
    /\ fair' = remove_vig(odds)
    /\ odds' = OddsAfterRemoveVig(odds)
    /\ calls' = Append(calls, [fn |-> "remove_vig", arg |-> odds,
                               after |-> odds', ret |-> fair'])
    /\ UNCHANGED <<bookmaker_odds_list, locals, result, dist_p, dist_q, jsd,
                   pc, over_odds, under_odds, fair_bdi, rows, out_rows,
                   cell, bdi_row, odds_data, analysis>>

\* fair = remove_vig(bookmaker_odds_list[j]), on an element of the list
AgainRemoveVigOfElement ==
    /\ Len(calls) < MaxCalls
    /\ \E j \in 1..Len(bookmaker_odds_list) :
         /\ fair' = remove_vig(bookmaker_odds_list[j])
         /\ bookmaker_odds_list' =
              [bookmaker_odds_list EXCEPT ![j] = OddsAfterRemoveVig(@)]
         /\ calls' = Append(calls, [fn |-> "remove_vig",
                                    arg |-> bookmaker_odds_list[j],
                                    after |-> bookmaker_odds_list'[j],
                                    ret |-> fair'])
    /\ UNCHANGED <<odds, locals, result, dist_p, dist_q, jsd,
                   pc, over_odds, under_odds, fair_bdi, rows, out_rows,
                   cell, bdi_row, odds_data, analysis>>

\* result = bookmaker_disagreement(bookmaker_odds_list)
AgainBookmakerDisagreement ==
    /\ Len(calls) < MaxCalls
    /\ locals' = Locals(bookmaker_odds_list)
    /\ result' = Return(bookmaker_odds_list, locals')
    /\ bookmaker_odds_list' =
         ListAfterBookmakerDisagreement(bookmaker_odds_list)
    /\ calls' = Append(calls, [fn |-> "bookmaker_disagreement",
                               arg |-> bookmaker_odds_list,
                               after |-> bookmaker_odds_list',
                               ret |-> result'])
    /\ UNCHANGED <<odds, fair, dist_p, dist_q, jsd,
                   pc, over_odds, under_odds, fair_bdi, rows, out_rows,
                   cell, bdi_row, odds_data, analysis>>

NextPure ==
    \/ AgainRemoveVig
    \/ AgainRemoveVigOfElement
    \/ AgainBookmakerDisagreement

SpecPure == InitPure /\ [][NextPure]_vars

(***************************************************************************)
(* compute_fair_bdi_for_group of tools/recompute_bdi_using_both_sides.py   *)
(* Bookmakers are the integers 1..MaxBookmakers, in the order of the keys  *)
(* of over_odds; 'over' is label 1 and 'under' label 2.                    *)
(***************************************************************************)
\* the bookmakers of S in increasing order, from b on
RECURSIVE KeysFrom(_, _)
KeysFrom(S, b) ==
    IF \A c \in S : c < b THEN <<>>
    ELSE IF b \in S THEN <<b>> \o KeysFrom(S, b + 1)
    ELSE KeysFrom(S, b + 1)

\* common = [b for b in over_odds.keys() if b in under_odds]
Common(over, under) == KeysFrom(DOMAIN over \cap DOMAIN under, 1)

\* {'over': o_over, 'under': o_under}
PairQuote(o_over, o_under) == [k \in {1, 2} |-> IF k = 1 THEN o_over ELSE o_under]

\* the loop body for one common bookmaker, lines 73-83: "skip" the continue
\* statement, "exc" an exception (of remove_vig, or the KeyError of
\* fair['under']), "ok" the pair (p_over, p_under) is appended
PairStep(o_over, o_under) ==
    LET f == remove_vig(PairQuote(o_over, o_under))
    IN  IF f.raised THEN [st |-> "exc", dist |-> <<>>]
        ELSE IF DOMAIN f.ret = {} \/ 1 \notin DOMAIN f.ret
        THEN [st |-> "skip", dist |-> <<>>]
        ELSE IF 2 \notin DOMAIN f.ret THEN [st |-> "exc", dist |-> <<>>]
        ELSE [st |-> "ok", dist |-> <<f.ret[1], f.ret[2]>>]

\* the steps of the loop over common, in order
PairSteps(over, under, common) ==
    [i \in 1..Len(common) |-> PairStep(over[common[i]], under[common[i]])]

\* bookie_dists: the pairs appended by the steps
RECURSIVE BookieDistsFrom(_, _)
BookieDistsFrom(steps, i) ==
    IF i > Len(steps) THEN <<>>
    ELSE IF steps[i].st = "ok"
         THEN <<steps[i].dist>> \o BookieDistsFrom(steps, i + 1)
         ELSE BookieDistsFrom(steps, i + 1)

\* lines 97-114, given bookie_dists, mean_dist and p_over_list
FairBdiReturn(bookie_dists, mean_dist, p_over_list) ==
    LET n == Len(p_over_list)
        var == Variance(p_over_list, n)
    IN  IF \E i \in 1..n : JSRaises(bookie_dists[i], mean_dist)
        THEN [raised |-> TRUE, ret |-> None]
        ELSE IF SqrtRaises(var) THEN [raised |-> TRUE, ret |-> None]
        ELSE LET jsds == [i \in 1..n |->
                            jensen_shannon(bookie_dists[i], mean_dist)]
             IN  [raised |-> FALSE,
                  ret |-> [fair_BDI_jsd |-> Div(SumSeq(jsds), IntNum(Len(jsds))),
                           fair_BDI_n_bookmakers |-> Len(bookie_dists),
                           fair_BDI_std_p |-> Sqrt(var),
                           fair_BDI_mad_p |-> MeanAbsDev(p_over_list, n)]]

\* lines 85-114, given bookie_dists
FairBdiFromDists(bookie_dists) ==
    IF Len(bookie_dists) < 2 THEN [raised |-> FALSE, ret |-> None]
    ELSE FairBdiReturn(bookie_dists,
                       MeanDist(bookie_dists, 2, Len(bookie_dists)),
                       Column(bookie_dists, 1))

\* lines 70-114, given the steps of the loop
FairBdiFromSteps(steps) ==
    IF \E i \in 1..Len(steps) : steps[i].st = "exc"
    THEN [raised |-> TRUE, ret |-> None]
    ELSE FairBdiFromDists(BookieDistsFrom(steps, 1))

\* compute_fair_bdi_for_group(over_odds, under_odds):
\* [raised |-> an exception escaped, ret |-> the returned dict or None]
compute_fair_bdi_for_group(over, under) ==
    IF Len(Common(over, under)) < 2 THEN [raised |-> FALSE, ret |-> None]
    ELSE FairBdiFromSteps(PairSteps(over, under, Common(over, under)))

(***************************************************************************)
(* Specification of the calls of compute_fair_bdi_for_group                *)
(***************************************************************************)
\* the prices of the Over side: parsed by float(val), so numbers, valid or
\* not, and nan
OverPrices == {Fin(3, 2), Fin(2, 1), Fin(-1, 1), NaN}

\* the prices of the Under side
UnderPrices == {Fin(2, 1), Fin(-1, 1)}

InitFair ==
    /\ odds = EmptyDict
    /\ fair = NoResult
    /\ bookmaker_odds_list = <<>>
    /\ locals = Locals(<<>>)
    /\ result = [raised |-> FALSE, ret |-> NoData]
    /\ dist_p = <<>>
    /\ dist_q = <<>>
    /\ jsd = NoJsd
    /\ pc = "call"
    /\ calls = <<>>
    /\ over_odds \in Dicts(1..MaxBookmakers, OverPrices)
    /\ under_odds \in Dicts(1..MaxBookmakers, UnderPrices)
    /\ fair_bdi = Nothing
    /\ rows = <<>>
    /\ out_rows = [raised |-> FALSE, ret |-> <<>>]
    /\ cell = [present |-> FALSE, parts |-> <<>>]
    /\ bdi_row = Nothing
    /\ odds_data = Nothing
    /\ AnalysisIdle

CallComputeFairBdiForGroup ==
    /\ pc = "call"
    /\ fair_bdi' = compute_fair_bdi_for_group(over_odds, under_odds)
    /\ pc' = "done"
    /\ UNCHANGED <<odds, fair, bookmaker_odds_list, locals, result,
                   dist_p, dist_q, jsd, calls, over_odds, under_odds,
                   rows, out_rows, cell, bdi_row, odds_data, analysis>>

NextFair == CallComputeFairBdiForGroup

SpecFair == InitFair /\ [][NextFair]_vars

(***************************************************************************)
(* OddsData of src/models.py                                               *)
(***************************************************************************)
\* the constraint gt of a float field: the value is a number greater than
\* the bound (False for nan, True for +inf)
FieldGt(v, bound) ==
    /\ v.k \in {"fin", "inf"}
    /\ v.k = "fin" => GtZero(Sub(v, bound))

\* OddsData(odds=v, ...), the other fields being valid:
\* [arg |-> v, raised |-> the validation error was raised,
\*  ret |-> the instance]
OddsData(v) ==
    IF FieldGt(v, One)
    THEN [arg |-> v, raised |-> FALSE, ret |-> [odds |-> v]]
    ELSE [arg |-> v, raised |-> TRUE, ret |-> [odds |-> None]]

\* the property implied_probability of an instance
implied_probability(self) == Div(One, self.odds)

(***************************************************************************)
(* Specification of the construction of an OddsData                        *)
(***************************************************************************)
\* the largest odds value tried
MaxOdds == 12

\* the values passed as odds: the multiples of 1/GridSteps up to MaxOdds,
\* a negative number, None, a non-numeric value, nan and inf
OddsValues ==
    {Fin(a, GridSteps) : a \in 0..(MaxOdds * GridSteps)}
      \cup {Fin(-1, 2), None, Str, NaN, Inf}

InitOddsData ==
    /\ odds = EmptyDict
    /\ fair = NoResult
    /\ bookmaker_odds_list = <<>>
    /\ locals = Locals(<<>>)
    /\ result = [raised |-> FALSE, ret |-> NoData]
    /\ dist_p = <<>>
    /\ dist_q = <<>>
    /\ jsd = NoJsd
    /\ pc = "call"
    /\ ToolsIdle

ConstructOddsData ==
    /\ pc = "call"
    /\ \E v \in OddsValues : odds_data' = OddsData(v)
    /\ pc' = "done"
    /\ UNCHANGED <<odds, fair, bookmaker_odds_list, locals, result,
                   dist_p, dist_q, jsd, calls, over_odds, under_odds,
                   fair_bdi, rows, out_rows, cell, bdi_row, analysis>>

NextOddsData == ConstructOddsData

SpecOddsData == InitOddsData /\ [][NextOddsData]_vars

(***************************************************************************)
(* The sums of bookmaker_disagreement on floating-point numbers            *)
(* Every addition, subtraction and division is rounded to MantissaBits     *)
(* significant bits (round to nearest, ties to even), as the float         *)
(* operations of the code are to 53 bits.                                  *)
(***************************************************************************)
\* the significant bits of a float
MantissaBits == 8

\* x rounded to the nearest float
RoundFloat(x) ==
    IF ~IsFin(x) \/ x.n = 0 THEN x
    ELSE LET a == AbsInt(x.n)
             sh == MantissaBits - 1 - FloorLog2(a, x.d)
             num == a * (2 ^ sh)
             q == num \div x.d
             r == num % x.d
             m == IF 2 * r > x.d \/ (2 * r = x.d /\ q % 2 = 1)
                  THEN q + 1 ELSE q
         IN  Fin(IF x.n < 0 THEN -m ELSE m, 2 ^ sh)

\* x + y, x - y and x / y on floats
FloatAdd(x, y) == RoundFloat(Add(x, y))

FloatSub(x, y) == RoundFloat(Sub(x, y))

FloatDiv(x, y) == RoundFloat(Div(x, y))

\* sum(xs) and "total += x" for x in xs: the elements are added from left
\* to right, acc being the sum so far
RECURSIVE FloatSumFrom(_, _, _)
FloatSumFrom(xs, i, acc) ==
    IF i > Len(xs) THEN acc
    ELSE FloatSumFrom(xs, i + 1, FloatAdd(acc, xs[i]))

FloatSum(xs) == FloatSumFrom(xs, 1, Zero)

\* remove_vig(o) on floats, for a quote set o of valid prices for both
\* labels: raw[k] = 1.0 / float(v), s = sum(raw.values()), rv / s
FloatRemoveVig(o) ==
    LET raw == [k \in DOMAIN o |-> FloatDiv(One, o[k])]
        s == FloatSum([i \in 1..2 |-> raw[i]])
    IN  [k \in DOMAIN o |-> FloatDiv(raw[k], s)]

\* the matrix of lines 119-123 on floats, for the outcomes 1 and 2
FloatMatrix(l) ==
    [j \in 1..Len(l) |-> Row(FloatRemoveVig(l[j]), <<1, 2>>)]

\* mean_dist[col] of lines 128-131 and mean_v of line 144 on floats
FloatMean(vals, n) == FloatDiv(FloatSum(vals), IntNum(n))

\* mad of line 149 on floats
FloatMad(vals, n) ==
    FloatDiv(FloatSum([i \in 1..Len(vals) |->
                         AbsNum(FloatSub(vals[i], FloatMean(vals, n)))]),
             IntNum(n))

\* the consensus and the mean absolute deviations returned for the list l
\* of quote sets with valid prices for both labels, given the matrix
FloatReturn(matrix, n) ==
    [raised |-> FALSE,
     ret |-> [mean_dist |-> [c \in 1..2 |-> FloatMean(Column(matrix, c), n)],
              per_outcome_mad |-> [c \in 1..2 |-> FloatMad(Column(matrix, c), n)],
              n_bookmakers |-> n]]

FloatBookmakerDisagreement(l) == FloatReturn(FloatMatrix(l), Len(l))

(***************************************************************************)
(* Specification of the calls of bookmaker_disagreement on floats          *)
(***************************************************************************)
\* quote sets with valid prices for both labels
OrderQuoteSets == [ListLabels -> {Fin(3, 2), Fin(2, 1), Fin(3, 1)}]

\* lists of three such quote sets
OrderLists == {<<a, b, c>> : a \in OrderQuoteSets, b \in OrderQuoteSets,
                             c \in OrderQuoteSets}

InitOrder ==
    /\ odds = EmptyDict
    /\ fair = NoResult
    /\ bookmaker_odds_list \in OrderLists
    /\ locals = Locals(<<>>)
    /\ result = [raised |-> FALSE, ret |-> NoData]
    /\ dist_p = <<>>
    /\ dist_q = <<>>
    /\ jsd = NoJsd
    /\ pc = "call"
    /\ ToolsIdle

CallOnFloats ==
    /\ pc = "call"
    /\ result' = FloatBookmakerDisagreement(bookmaker_odds_list)
    /\ pc' = "done"
    /\ UNCHANGED <<odds, fair, bookmaker_odds_list, locals, dist_p, dist_q,
                   jsd, tools, analysis>>

NextOrder == CallOnFloats

SpecOrder == InitOrder /\ [][NextOrder]_vars

(***************************************************************************)
(* Texts written to the CSV files                                          *)
(* A text is [k, neg, micro]: "empty" is '', "int" is str(micro), "fixed"  *)
(* is the decimal number micro / 10^6 with six decimals and the sign neg,  *)
(* "nan" and "inf" are the texts 'nan' and 'inf'.                          *)
(***************************************************************************)
EmptyText == [k |-> "empty", neg |-> FALSE, micro |-> 0]

\* str(n) for an int n >= 0
StrInt(n) == [k |-> "int", neg |-> FALSE, micro |-> n]

\* the digits of rem/d after the point: k more digits appended to acc;
\* <<the digits as an integer, the remainder left>>
RECURSIVE DigitsFrom(_, _, _, _)
DigitsFrom(rem, d, k, acc) ==
    IF k = 0 THEN <<acc, rem>>
    ELSE DigitsFrom((10 * rem) % d, d, k - 1, 10 * acc + (10 * rem) \div d)

\* a/d for integers a >= 0, d > 0, rounded to six decimals (ties to even),
\* in millionths
RoundMicro(a, d) ==
    LET t == DigitsFrom(a % d, d, 6, a \div d)
    IN  IF 2 * t[2] > d \/ (2 * t[2] = d /\ t[1] % 2 = 1)
        THEN t[1] + 1 ELSE t[1]

\* the largest digit x with (20 * p + x) * x <= r
RootDigit(p, r) == CHOOSE x \in 0..9 :
    /\ (20 * p + x) * x <= r
    /\ x = 9 \/ (20 * p + x + 1) * (x + 1) > r

\* the square root of a/d digit by digit: k more digits appended to the
\* root p, r being the remainder of the root and rem/d what is left of the
\* radicand
RECURSIVE RootFrom(_, _, _, _, _)
RootFrom(rem, d, k, p, r) ==
    IF k = 0 THEN p
    ELSE LET r2 == 100 * r + (100 * rem) \div d
             x == RootDigit(p, r2)
         IN  RootFrom((100 * rem) % d, d, k - 1, 10 * p + x,
                      r2 - (20 * p + x) * x)

\* sqrt(a/d) for integers 0 <= a < 100 * d, rounded to six decimals, in
\* millionths
RootMicro(a, d) ==
    LET p0 == RootDigit(0, a \div d)
        seven == RootFrom(a % d, d, 7, p0, a \div d - p0 * p0)
    IN  IF seven % 10 >= 5 THEN seven \div 10 + 1 ELSE seven \div 10

\* f"{x:.6f}"
Format6(x) ==
    IF x.k = "nan" THEN [k |-> "nan", neg |-> FALSE, micro |-> 0]
    ELSE IF x.k = "inf" THEN [k |-> "inf", neg |-> FALSE, micro |-> 0]
    ELSE IF x.k = "sqrt"
         THEN [k |-> "fixed", neg |-> FALSE, micro |-> RootMicro(x.n, x.d)]
    ELSE [k |-> "fixed", neg |-> x.n < 0, micro |-> RoundMicro(AbsInt(x.n), x.d)]

(***************************************************************************)
(* process of tools/recompute_bdi_using_both_sides.py                      *)
(* A row is [Partido, Mercado, Todas_Las_Cuotas]: Partido is a number (0   *)
(* for None), Mercado the list of the lower-case words of the market, and  *)
(* the cell the list of its ';'-separated parts [name, val], name 0 for a  *)
(* part without ':' and val the number float(val) gives, or Str.           *)
(***************************************************************************)
\* the part has a ':' and float(val) does not raise
Parses(part) == part.name # 0 /\ part.val.k # "str"

\* the index of the last part of the cell that sets d[b]
LastPart(parts, b) ==
    CHOOSE i \in 1..Len(parts) :
       /\ Parses(parts[i]) /\ parts[i].name = b
       /\ \A j \in (i + 1)..Len(parts) : ~(Parses(parts[j]) /\ parts[j].name = b)

\* parse_todas_las_cuotas(cell) of recompute_bdi_using_both_sides: the dict
\* bookie -> odd
parse_todas_las_cuotas(parts) ==
    [b \in {parts[i].name : i \in {j \in 1..Len(parts) : Parses(parts[j])}} |->
       parts[LastPart(parts, b)].val]

\* market_key(market): (side, thr), or (None, None) written ("", "")
market_key(market) ==
    IF Len(market) < 2 THEN [side |-> "", thr |-> ""]
    ELSE [side |-> market[1], thr |-> market[Len(market)]]

\* the row is entered in groups: lines 128-134
Grouped(r) == r.Partido # 0 /\ market_key(r.Mercado).side # ""

\* key = (partido.strip(), thr)
GroupKey(r) == <<r.Partido, market_key(r.Mercado).thr>>

\* the rows that set groups[key][side], in order
SideRows(rs, key, side) ==
    {i \in 1..Len(rs) : /\ Grouped(rs[i])
                        /\ GroupKey(rs[i]) = key
                        /\ market_key(rs[i].Mercado).side = side}

\* groups[key][side] after the loop: the last row that assigned it
LastRow(rs, key, side) ==
    CHOOSE i \in SideRows(rs, key, side) : \A j \in SideRows(rs, key, side) : j <= i

\* the keys of groups with both 'over' and 'under' in their mapping
BothSides(rs) ==
    {key \in {GroupKey(rs[i]) : i \in {j \in 1..Len(rs) : Grouped(rs[j])}} :
       SideRows(rs, key, "over") # {} /\ SideRows(rs, key, "under") # {}}

\* res of line 146 for the group key
GroupRes(rs, key) ==
    compute_fair_bdi_for_group(
        parse_todas_las_cuotas(rs[LastRow(rs, key, "over")].Todas_Las_Cuotas),
        parse_todas_las_cuotas(rs[LastRow(rs, key, "under")].Todas_Las_Cuotas))

\* the keys whose result is assigned to row idx: lines 147-150
KeysOf(rs, idx, res) ==
    {key \in DOMAIN res :
       /\ res[key].ret # None
       /\ idx \in {LastRow(rs, key, "over"), LastRow(rs, key, "under")}}

\* the row written for row r: lines 164-176
OutRow(r, filled, v) ==
    IF filled
    THEN [row |-> r,
          BDI_jsd_fair |-> Format6(v.fair_BDI_jsd),
          BDI_n_bookmakers_fair |-> StrInt(v.fair_BDI_n_bookmakers),
          BDI_std_p_fair |-> Format6(v.fair_BDI_std_p),
          BDI_mad_p_fair |-> Format6(v.fair_BDI_mad_p)]
    ELSE [row |-> r,
          BDI_jsd_fair |-> EmptyText,
          BDI_n_bookmakers_fair |-> EmptyText,
          BDI_std_p_fair |-> EmptyText,
          BDI_mad_p_fair |-> EmptyText]

\* the rows written, given the results of the groups with both sides
OutRows(rs, res) ==
    [idx \in 1..Len(rs) |->
       IF KeysOf(rs, idx, res) = {} THEN OutRow(rs[idx], FALSE, None)
       ELSE OutRow(rs[idx], TRUE,
                   res[CHOOSE key \in KeysOf(rs, idx, res) : TRUE].ret)]

\* process, given the results of the groups with both sides:
\* [raised |-> an exception escaped, ret |-> the rows of the output file]
ProcessWith(rs, res) ==
    IF \E key \in DOMAIN res : res[key].raised
    THEN [raised |-> TRUE, ret |-> <<>>]
    ELSE [raised |-> FALSE, ret |-> OutRows(rs, res)]

\* process(input_csv, output_csv) for the rows rs of the input file
process(rs) == ProcessWith(rs, [key \in BothSides(rs) |-> GroupRes(rs, key)])

(***************************************************************************)
(* Specification of the runs of process of recompute_bdi_using_both_sides  *)
(***************************************************************************)
\* the number of rows of the input file
MaxRows == 3

\* the Mercado values: the two sides of a threshold, and a one-word market
Markets == {<<"over", "2.5">>, <<"under", "2.5">>, <<"btts">>}

\* the Todas_Las_Cuotas cells: 'b1:2.0;b2:2.0', 'b1:1.5;b2:2.0', and
\* 'b1:2.0;b2:0;junk;b3:x' with a price that is not valid, a part without
\* ':' and a value that is not a number
Cells ==
    { << [name |-> 1, val |-> Fin(2, 1)], [name |-> 2, val |-> Fin(2, 1)] >>,
      << [name |-> 1, val |-> Fin(3, 2)], [name |-> 2, val |-> Fin(2, 1)] >>,
      << [name |-> 1, val |-> Fin(2, 1)], [name |-> 2, val |-> Zero],
         [name |-> 0, val |-> Str], [name |-> 3, val |-> Str] >> }

InputRows ==
    [Partido : {1, 2}, Mercado : Markets, Todas_Las_Cuotas : Cells]

InitCsv ==
    /\ odds = EmptyDict
    /\ fair = NoResult
    /\ bookmaker_odds_list = <<>>
    /\ locals = Locals(<<>>)
    /\ result = [raised |-> FALSE, ret |-> NoData]
    /\ dist_p = <<>>
    /\ dist_q = <<>>
    /\ jsd = NoJsd
    /\ pc = "call"
    /\ calls = <<>>
    /\ over_odds = EmptyDict
    /\ under_odds = EmptyDict
    /\ fair_bdi = Nothing
    /\ rows \in ListsUpTo(InputRows, MaxRows)
    /\ out_rows = [raised |-> FALSE, ret |-> <<>>]
    /\ cell = [present |-> FALSE, parts |-> <<>>]
    /\ bdi_row = Nothing
    /\ odds_data = Nothing
    /\ AnalysisIdle

RunProcess ==
    /\ pc = "call"
    /\ out_rows' = process(rows)
    /\ pc' = "done"
    /\ UNCHANGED <<odds, fair, bookmaker_odds_list, locals, result,
                   dist_p, dist_q, jsd, calls, over_odds, under_odds,
                   fair_bdi, rows, cell, bdi_row, odds_data, analysis>>

NextCsv == RunProcess

SpecCsv == InitCsv /\ [][NextCsv]_vars

(***************************************************************************)
(* tools/add_bdi_to_csv.py                                                 *)
(* The cell of a row is [present, parts]: present is FALSE when the row    *)
(* has no Todas_Las_Cuotas value (None), parts as above.                   *)
(***************************************************************************)
\* the odds appended by the parts from i on
RECURSIVE OddsFrom(_, _)
OddsFrom(parts, i) ==
    IF i > Len(parts) THEN <<>>
    ELSE IF Parses(parts[i]) THEN <<parts[i].val>> \o OddsFrom(parts, i + 1)
    ELSE OddsFrom(parts, i + 1)

\* parse_todas_las_cuotas(cell) of add_bdi_to_csv: the list of odds
parse_todas_las_cuotas_list(c) ==
    IF ~c.present THEN <<>> ELSE OddsFrom(c.parts, 1)

\* the largest float whose square is a float (2^512 on doubles), scaled to
\* the numbers of the model
FloatRootMax == 2 ^ 10

\* x ** 2 raises OverflowError
SquareRaises(x) == IsFin(x) /\ AbsInt(x.n) > FloatRootMax * x.d

\* ps = [1.0 / o for o in odds_list if o > 0]
RECURSIVE PsFrom(_, _)
PsFrom(odds_list, i) ==
    IF i > Len(odds_list) THEN <<>>
    ELSE IF GtZero(odds_list[i])
         THEN <<Div(One, odds_list[i])>> \o PsFrom(odds_list, i + 1)
         ELSE PsFrom(odds_list, i + 1)

\* the dict returned when there is nothing to compute: lines 66-71, 74-79
NoBdi ==
    [BDI_jsd |-> None, BDI_n_bookmakers |-> 0,
     BDI_std_p |-> None, BDI_mad_p |-> None]

\* jsds: the JSDs of the calls of line 90 that did not raise
RECURSIVE JsdsFrom(_, _, _)
JsdsFrom(ps, consensus, i) ==
    IF i > Len(ps) THEN <<>>
    ELSE LET dist == <<ps[i], Sub(One, ps[i])>>
         IN  IF JSRaises(dist, consensus) THEN JsdsFrom(ps, consensus, i + 1)
             ELSE <<jensen_shannon(dist, consensus)>>
                    \o JsdsFrom(ps, consensus, i + 1)

\* lines 96-109, given ps, p_bar and jsds
BdiReturn(ps, p_bar, jsds) ==
    [raised |-> FALSE,
     ret |-> [BDI_jsd |-> IF jsds = <<>> THEN None
                          ELSE Div(SumSeq(jsds), IntNum(Len(jsds))),
              BDI_n_bookmakers |-> Len(ps),
              BDI_std_p |-> Sqrt(Variance(ps, Len(ps))),
              BDI_mad_p |-> MeanAbsDev(ps, Len(ps))]]

\* lines 80-109, given ps and p_bar
BdiFromMean(ps, p_bar) ==
    IF \E i \in 1..Len(ps) : SquareRaises(Sub(ps[i], p_bar))
    THEN [raised |-> TRUE, ret |-> NoBdi]
    ELSE BdiReturn(ps, p_bar,
                   JsdsFrom(ps, <<p_bar, Sub(One, p_bar)>>, 1))

\* lines 73-109, given ps
BdiFromPs(ps) ==
    IF ps = <<>> THEN [raised |-> FALSE, ret |-> NoBdi]
    ELSE BdiFromMean(ps, Div(SumSeq(ps), IntNum(Len(ps))))

\* compute_bdi_from_odds_list(odds_list):
\* [raised |-> an exception escaped, ret |-> the returned dict]
compute_bdi_from_odds_list(odds_list) ==
    IF odds_list = <<>> THEN [raised |-> FALSE, ret |-> NoBdi]
    ELSE BdiFromPs(PsFrom(odds_list, 1))

\* '' if x is None else f"{x:.6f}"
FormatOrEmpty(x) == IF x = None THEN EmptyText ELSE Format6(x)

\* the four columns process writes for a row, given res: lines 123-126
BdiColumns(res) ==
    IF res.raised THEN [raised |-> TRUE, ret |-> None]
    ELSE [raised |-> FALSE,
          ret |-> [BDI_jsd |-> FormatOrEmpty(res.ret.BDI_jsd),
                   BDI_n_bookmakers |-> StrInt(res.ret.BDI_n_bookmakers),
                   BDI_std_p |-> FormatOrEmpty(res.ret.BDI_std_p),
                   BDI_mad_p |-> FormatOrEmpty(res.ret.BDI_mad_p)]]

\* the body of the loop of process for the row with the cell c
process_row(c) ==
    BdiColumns(compute_bdi_from_odds_list(parse_todas_las_cuotas_list(c)))

(***************************************************************************)
(* Specification of the rows of process of add_bdi_to_csv                  *)
(***************************************************************************)
\* the number of parts of a cell
MaxParts == 3

\* the values after the ':' of a part: prices, 0.5, a price so small that
\* the square of its inverse is no float, 0, a negative number, nan, inf
\* and a text that is no number
CellValues ==
    {Fin(2, 1), Fin(3, 2), Fin(1, 2), Fin(1, 8 * FloatRootMax), Zero,
     Fin(-1, 1), NaN, Inf, Str}

\* the parts of a cell: 'name:val', and a part without ':'
CellParts ==
    {[name |-> 1, val |-> v] : v \in CellValues} \cup {[name |-> 0, val |-> Str]}

\* the cells: absent, or up to MaxParts parts
CellInputs ==
    {[present |-> FALSE, parts |-> <<>>]}
      \cup {[present |-> TRUE, parts |-> ps] : ps \in ListsUpTo(CellParts, MaxParts)}

InitBdi ==
    /\ odds = EmptyDict
    /\ fair = NoResult
    /\ bookmaker_odds_list = <<>>
    /\ locals = Locals(<<>>)
    /\ result = [raised |-> FALSE, ret |-> NoData]
    /\ dist_p = <<>>
    /\ dist_q = <<>>
    /\ jsd = NoJsd
    /\ pc = "call"
    /\ calls = <<>>
    /\ over_odds = EmptyDict
    /\ under_odds = EmptyDict
    /\ fair_bdi = Nothing
    /\ rows = <<>>
    /\ out_rows = [raised |-> FALSE, ret |-> <<>>]
    /\ cell \in CellInputs
    /\ bdi_row = Nothing
    /\ odds_data = Nothing
    /\ AnalysisIdle

ProcessRow ==
    /\ pc = "call"
    /\ bdi_row' = process_row(cell)
    /\ pc' = "done"
    /\ UNCHANGED <<odds, fair, bookmaker_odds_list, locals, result,
                   dist_p, dist_q, jsd, calls, over_odds, under_odds,
                   fair_bdi, rows, out_rows, cell, odds_data, analysis>>

NextBdi == ProcessRow

SpecBdi == InitBdi /\ [][NextBdi]_vars

(***************************************************************************)
(* src/analyzer.py: the non-fair BDI of a selection, computed in           *)
(* _analyze_grouped_market (lines 255-277) and in analyze_match_odds       *)
(* (lines 387-409) from the odds the bookmakers quote for the selection.   *)
(* The labels sel_label and f"{sel_label}_other" are the labels 1 and 2:   *)
(* a string sorts before the string it is a proper prefix of.              *)
(***************************************************************************)
sel_label == 1

sel_other == 2

\* the floor of 1.0 - p in max(1e-9, 1.0 - p), scaled to the numbers of the
\* model: a price is within the floor of 1 when 1 - 1/price is below it
OtherFloor == Fin(1, 2 ^ 3)

\* max(a, b) of Python on two floats: b when b > a, else a
PyMax(a, b) == IF Less(a, b) THEN b ELSE a

\* not odds_val
NotOdds(odds_val) == odds_val = None \/ odds_val = Zero

\* odds_val <= 1 raises TypeError
LeOneRaises(odds_val) == odds_val.k = "str"

\* odds_val <= 1
LeOne(odds_val) == IsFin(odds_val) /\ odds_val.n <= odds_val.d

\* the dict appended for odds_val
QuoteSetOf(odds_val) ==
    LET p == Div(One, odds_val)
        other_odds == Div(One, PyMax(OtherFloor, Sub(One, p)))
    IN  [k \in {sel_label, sel_other} |->
            IF k = sel_label THEN odds_val ELSE other_odds]

\* bookmaker_odds_list after the loop over the odds from i on
RECURSIVE QuoteSetsFrom(_, _)
QuoteSetsFrom(os, i) ==
    IF i > Len(os) THEN <<>>
    ELSE IF NotOdds(os[i]) \/ LeOne(os[i]) THEN QuoteSetsFrom(os, i + 1)
    ELSE <<QuoteSetOf(os[i])>> \o QuoteSetsFrom(os, i + 1)

\* the loop raises: an odds_val that is truthy and no number
LoopRaises(os) == \E i \in 1..Len(os) : LeOneRaises(os[i])

\* d.get(key)
GetOrNone(d, key) == IF key \in DOMAIN d THEN d[key] ELSE None

\* bdi_jsd, bdi_n, bdi_std_p and bdi_mad_p of the except branch and of
\* bdi_res = {}
NoBdiRes ==
    [bdi_jsd |-> None, bdi_n |-> None, bdi_std_p |-> None, bdi_mad_p |-> None]

\* bdi_jsd, bdi_n, bdi_std_p and bdi_mad_p read from bdi_res; the int
\* bdi_n is written as a number, as it may also be None
BdiOfRes(bdi_res) ==
    IF bdi_res.raised THEN NoBdiRes
    ELSE [bdi_jsd |-> bdi_res.ret.jsd_mean,
          bdi_n |-> IntNum(bdi_res.ret.n_bookmakers),
          bdi_std_p |-> GetOrNone(bdi_res.ret.per_outcome_std, sel_label),
          bdi_mad_p |-> GetOrNone(bdi_res.ret.per_outcome_mad, sel_label)]

\* the try block for the odds os of the selection
NonFairBdi(os) ==
    IF LoopRaises(os) THEN NoBdiRes
    ELSE IF QuoteSetsFrom(os, 1) = <<>> THEN NoBdiRes
    ELSE BdiOfRes(bookmaker_disagreement(QuoteSetsFrom(os, 1)))

(***************************************************************************)
(* Specification of the non-fair BDI of the analyzer and of                *)
(* compute_bdi_from_odds_list of add_bdi_to_csv on the same odds           *)
(***************************************************************************)
\* the odds of a selection: prices above 1, a price within the floor of 1,
\* 1, a price below 1, 0, nan and inf
AnalyzerOdds ==
    {Fin(3, 2), Fin(2, 1), Fin(3, 1), Fin(9, 8), One, Fin(1, 2), Zero,
     NaN, Inf}

InitAnalyzer ==
    /\ odds = EmptyDict
    /\ fair = NoResult
    /\ bookmaker_odds_list = <<>>
    /\ locals = Locals(<<>>)
    /\ result = [raised |-> FALSE, ret |-> NoData]
    /\ dist_p = <<>>
    /\ dist_q = <<>>
    /\ jsd = NoJsd
    /\ pc = "call"
    /\ calls = <<>>
    /\ over_odds = EmptyDict
    /\ under_odds = EmptyDict
    /\ fair_bdi = Nothing
    /\ rows = <<>>
    /\ out_rows = [raised |-> FALSE, ret |-> <<>>]
    /\ cell = [present |-> FALSE, parts |-> <<>>]
    /\ bdi_row = Nothing
    /\ odds_data = Nothing
    /\ odds_1x \in ListsUpTo(AnalyzerOdds, MaxBookmakers)
    /\ bdi = Nothing
    /\ csv_bdi = Nothing

\* the analyzer computes the non-fair BDI of the selection
AnalyzeOdds ==
    /\ bdi = Nothing
    /\ bookmaker_odds_list' = QuoteSetsFrom(odds_1x, 1)
    /\ bdi' = [raised |-> FALSE, ret |-> NonFairBdi(odds_1x)]
    /\ pc' = IF csv_bdi = Nothing THEN "call" ELSE "done"
    /\ UNCHANGED <<odds, fair, locals, result, dist_p, dist_q, jsd, tools,
                   odds_1x, csv_bdi>>

\* compute_bdi_from_odds_list is called on the same odds
ComputeCsvBdi ==
    /\ csv_bdi = Nothing
    /\ csv_bdi' = compute_bdi_from_odds_list(odds_1x)
    /\ pc' = IF bdi = Nothing THEN "call" ELSE "done"
    /\ UNCHANGED <<odds, fair, bookmaker_odds_list, locals, result,
                   dist_p, dist_q, jsd, tools, odds_1x, bdi>>

NextAnalyzer == AnalyzeOdds \/ ComputeCsvBdi

SpecAnalyzer == InitAnalyzer /\ [][NextAnalyzer]_vars

PairedList ==
    [i \in 1..Len(Common(over_odds, under_odds)) |->
       PairQuote(over_odds[Common(over_odds, under_odds)[i]],
                 under_odds[Common(over_odds, under_odds)[i]])]

\* compute_fair_bdi_for_group returned a result: no exception, not None
FairBdiReturned == pc = "done" /\ ~fair_bdi.raised /\ fair_bdi.ret # None

\* the four values of the result are those of the scorer's result sc
SameAsScorer(sc) ==
    /\ ~sc.raised
    /\ sc.ret.jsd_mean = fair_bdi.ret.fair_BDI_jsd
    /\ sc.ret.n_bookmakers = fair_bdi.ret.fair_BDI_n_bookmakers
    /\ 1 \in DOMAIN sc.ret.per_outcome_std
    /\ sc.ret.per_outcome_std[1] = fair_bdi.ret.fair_BDI_std_p
    /\ sc.ret.per_outcome_mad[1] = fair_bdi.ret.fair_BDI_mad_p

\* C22: whenever compute_fair_bdi_for_group returns a result, its
\* fair_BDI_jsd, fair_BDI_n_bookmakers, fair_BDI_std_p and fair_BDI_mad_p
\* equal jsd_mean, n_bookmakers, per_outcome_std['over'] and
\* per_outcome_mad['over'] of bookmaker_disagreement applied to the list of
\* the {'over': o, 'under': u} quote sets of the bookmakers present on both
\* sides, in the same order.
C22_SameAsScorer ==
    FairBdiReturned => SameAsScorer(bookmaker_disagreement(PairedList))

\* every bookmaker present on both sides has two valid prices or none
BothOrNeither ==
    \A b \in DOMAIN over_odds \cap DOMAIN under_odds :
       PriceValid(over_odds[b]) <=> PriceValid(under_odds[b])

\* C22 for groups in which no common bookmaker has exactly one valid price:
\* there the result of compute_fair_bdi_for_group equals the scorer's.
C22_SameAsScorerPaired ==
    (FairBdiReturned /\ BothOrNeither)
      => SameAsScorer(bookmaker_disagreement(PairedList))

\* a result for a group with two fully priced bookmakers that disagree and
\* one without valid prices
C22_WitnessPaired ==
    /\ FairBdiReturned
    /\ BothOrNeither
    /\ fair_bdi.ret.fair_BDI_n_bookmakers = 2
    /\ Len(PairedList) = 3
    /\ fair_bdi.ret.fair_BDI_mad_p.k = "fin"
    /\ fair_bdi.ret.fair_BDI_mad_p.n > 0

\* the bookmakers present on both sides with two valid prices
ValidPairs ==
    {b \in DOMAIN over_odds \cap DOMAIN under_odds :
       PriceValid(over_odds[b]) /\ PriceValid(under_odds[b])}

\* C27: compute_fair_bdi_for_group never raises: a common bookmaker whose
\* Over or Under price is invalid (<= 0) is skipped, and the function
\* returns None whenever fewer than two bookmakers remain with a valid pair.
C27_NeverRaises ==
    pc = "done" =>
       /\ ~fair_bdi.raised
       /\ Cardinality(ValidPairs) < 2 => fair_bdi.ret = None

\* some common bookmaker has a valid Over price and an invalid Under price
OverWithoutUnder ==
    \E b \in DOMAIN over_odds \cap DOMAIN under_odds :
       PriceValid(over_odds[b]) /\ PriceInvalid(under_odds[b])

\* C27 for groups without nan prices: the call raises exactly when at least
\* two bookmakers are common and one of them has a valid Over price with an
\* invalid Under price; otherwise it returns None when fewer than two valid
\* pairs remain, and a result when two or more do.
C27_RaisesOnUnderOnly ==
    (pc = "done" /\ FinitePrices(over_odds) /\ FinitePrices(under_odds)) =>
       /\ fair_bdi.raised <=>
            (OverWithoutUnder
               /\ Cardinality(DOMAIN over_odds \cap DOMAIN under_odds) >= 2)
       /\ ~fair_bdi.raised =>
            (fair_bdi.ret = None <=> Cardinality(ValidPairs) < 2)

\* the call raised for a group of finite prices
C27_WitnessRaised ==
    /\ pc = "done"
    /\ FinitePrices(over_odds)
    /\ fair_bdi.raised
    /\ Cardinality(ValidPairs) = 2

\* a number not greater than 1.0
AtMostOne(v) == v.k = "fin" /\ v.n <= v.d

\* C23: constructing an OddsData with odds not greater than 1.0 is rejected
\* with a validation error, so every existing OddsData has odds > 1.0 and an
\* implied_probability = 1/odds strictly between 0 and 1.
C23_Validated ==
    pc = "done" =>
       /\ AtMostOne(odds_data.arg) => odds_data.raised
       /\ ~odds_data.raised =>
            /\ FieldGt(odds_data.ret.odds, One)
            /\ InUnit(implied_probability(odds_data.ret))
            /\ implied_probability(odds_data.ret) \notin {Zero, One}

\* C23 for odds that are not inf: values not greater than 1.0 are rejected,
\* and an existing OddsData has odds > 1.0 and an implied probability
\* strictly between 0 and 1.
C23_ValidatedFinite ==
    (pc = "done" /\ odds_data.arg # Inf) =>
       /\ AtMostOne(odds_data.arg) => odds_data.raised
       /\ ~odds_data.raised =>
            /\ FieldGt(odds_data.ret.odds, One)
            /\ InUnit(implied_probability(odds_data.ret))
            /\ implied_probability(odds_data.ret) \notin {Zero, One}

\* an OddsData constructed with odds just above 1.0
C23_WitnessFinite ==
    /\ pc = "done"
    /\ ~odds_data.raised
    /\ odds_data.arg = Fin(GridSteps + 1, GridSteps)

\* the j-th surviving bookmaker does not quote every outcome of the union
MissesOutcome(j) == DOMAIN locals.fair_list[j] # locals.outcomes_set

\* C24, as claimed: when a surviving bookmaker does not quote every outcome
\* of the union, padding its missing outcomes with probability 0 makes its
\* matrix row no longer sum to 1.
C24_RowSumLost ==
    pc = "done" =>
       \A j \in 1..locals.n :
          MissesOutcome(j) => SumSeq(locals.matrix[j]) # One

\* C24, corrected: padding the missing outcomes of a surviving bookmaker with
\* probability 0 leaves the sum of its matrix row equal to the sum of its
\* fair distribution, which is 1 unless a price of the bookmaker is nan.
C24_RowSumKept ==
    pc = "done" =>
       \A j \in 1..locals.n :
          MissesOutcome(j) =>
             /\ SumSeq(locals.matrix[j]) = SumVals(locals.fair_list[j])
             /\ (\A o \in DOMAIN locals.fair_list[j] :
                    IsFin(locals.fair_list[j][o]))
                  => SumSeq(locals.matrix[j]) = One

\* two surviving bookmakers, one of them with a row padded with 0 that sums
\* to 1
C24_Witness ==
    /\ pc = "done"
    /\ ~result.raised
    /\ locals.n = 2
    /\ \E j \in 1..locals.n :
         /\ MissesOutcome(j)
         /\ \E c \in 1..Len(locals.outcomes) : locals.matrix[j][c] = Zero
         /\ SumSeq(locals.matrix[j]) = One

\* a term of _kl_divergence(p, m) that is not skipped and is computed with
\* the epsilon floor in place of m[i]
FloorContributes(p, m) ==
    \E i \in 1..Min(Len(p), Len(m)) : ~Skipped(p[i]) /\ Floored(m[i])

\* the calls jensen_shannon(row, mean_dist) of line 136: the epsilon floor
\* is applied to no term that contributes, and an entry of the mixture is 0
\* only where both vectors are 0
NoFloorInCalls ==
    \A j \in 1..locals.n :
       LET p == locals.matrix[j]
           q == locals.mean_dist
           m == Mixture(p, q)
       IN  /\ \A i \in 1..Len(m) :
                /\ LeZero(m[i]) => (p[i] = Zero /\ q[i] = Zero)
                /\ GtZero(p[i]) => GtZero(m[i])
                /\ GtZero(q[i]) => GtZero(m[i])
           /\ ~FloorContributes(p, m)
           /\ ~FloorContributes(q, m)

\* C25: in every call of jensen_shannon made by bookmaker_disagreement the
\* epsilon floor of _kl_divergence is applied to no term that contributes:
\* the mixture entry m_i = (p_i + q_i)/2 is 0 only when both p_i and q_i
\* are 0, such terms are skipped, and every term with p_i > 0 is computed
\* with m_i > 0.
C25_NoFloor == pc = "done" => NoFloorInCalls

\* C25 for lists without nan prices
C25_NoFloorFinite == (pc = "done" /\ FiniteList) => NoFloorInCalls

\* a call with a skipped term: a row padded with 0 for an outcome whose
\* consensus is positive
C25_WitnessFinite ==
    /\ pc = "done"
    /\ FiniteList
    /\ ~result.raised
    /\ locals.n >= 2
    /\ \E j \in 1..locals.n : \E i \in 1..Len(locals.outcomes) :
         /\ Skipped(locals.matrix[j][i])
         /\ GtZero(locals.mean_dist[i])

\* the permutations of 1..n
Perms(n) == {f \in [1..n -> 1..n] : \A i, j \in 1..n : f[i] = f[j] => i = j}

\* the list l with its elements in the order f
Permuted(l, f) == [i \in 1..Len(l) |-> l[f[i]]]

\* C26: the consensus, n_bookmakers and per_outcome_mad returned by
\* bookmaker_disagreement do not depend on the order of the quote sets in
\* the input list.
C26_OrderIndependent ==
    pc = "done" =>
       \A f \in Perms(Len(bookmaker_odds_list)) :
          FloatBookmakerDisagreement(Permuted(bookmaker_odds_list, f)) = result

\* the outputs named by C26 agree in the results r and s
SameOutputs(r, s) ==
    /\ r.raised = s.raised
    /\ r.ret.outcomes = s.ret.outcomes
    /\ r.ret.n_bookmakers = s.ret.n_bookmakers
    /\ r.ret.jsd_mean = s.ret.jsd_mean
    /\ r.ret.per_outcome_std = s.ret.per_outcome_std
    /\ r.ret.per_outcome_mad = s.ret.per_outcome_mad

\* C26 in exact arithmetic: when every sum is exact, the outputs outcomes,
\* n_bookmakers, jsd_mean, per_outcome_std and per_outcome_mad are the same
\* for every order of the input list, and when every quote set survives the
\* per-bookmaker JSD list is permuted as the input list is.
C26_OrderIndependentExact ==
    pc = "done" =>
       \A f \in Perms(Len(bookmaker_odds_list)) :
          LET s == bookmaker_disagreement(Permuted(bookmaker_odds_list, f))
          IN  /\ SameOutputs(result, s)
              /\ (~result.raised /\ locals.n >= 1
                     /\ locals.n = Len(bookmaker_odds_list))
                   => s.ret.jsd_list = Permuted(result.ret.jsd_list, f)

\* row i is the Over or the Under side of a group
IsSide(i) ==
    Grouped(rows[i]) /\ market_key(rows[i].Mercado).side \in {"over", "under"}

\* the rows of the other side of the group of row i
Partners(i) ==
    {j \in 1..Len(rows) :
       /\ IsSide(j)
       /\ GroupKey(rows[j]) = GroupKey(rows[i])
       /\ market_key(rows[j].Mercado).side # market_key(rows[i].Mercado).side}

\* the Over row and the Under row among the rows i and j of a group
OverOf(i, j) == IF market_key(rows[i].Mercado).side = "over" THEN i ELSE j

UnderOf(i, j) == IF market_key(rows[i].Mercado).side = "over" THEN j ELSE i

\* the bookmakers of the rows i and j with a valid price on both sides
Paired(i, j) ==
    LET o == parse_todas_las_cuotas(rows[i].Todas_Las_Cuotas)
        u == parse_todas_las_cuotas(rows[j].Todas_Las_Cuotas)
    IN  {b \in DOMAIN o \cap DOMAIN u : PriceValid(o[b]) /\ PriceValid(u[b])}

\* the four *_fair columns of the written row are empty / hold the fair BDI
\* values of the Over row i and the Under row j
FairEmpty(w) ==
    /\ w.BDI_jsd_fair = EmptyText
    /\ w.BDI_n_bookmakers_fair = EmptyText
    /\ w.BDI_std_p_fair = EmptyText
    /\ w.BDI_mad_p_fair = EmptyText

FairOf(w, i, j) ==
    LET res == compute_fair_bdi_for_group(
                   parse_todas_las_cuotas(rows[i].Todas_Las_Cuotas),
                   parse_todas_las_cuotas(rows[j].Todas_Las_Cuotas))
    IN  /\ ~res.raised
        /\ res.ret # None
        /\ w = OutRow(w.row, TRUE, res.ret)

\* every row of a group with both sides and at least two paired bookmakers
\* has the group's values, the same as the rows of the other side; every
\* other row has empty strings; the rows are those of the input, in order
RowsFilled ==
    /\ ~out_rows.raised
    /\ Len(out_rows.ret) = Len(rows)
    /\ \A i \in 1..Len(rows) :
         /\ out_rows.ret[i].row = rows[i]
         /\ IF IsSide(i) /\ \E j \in Partners(i) :
                               Cardinality(Paired(OverOf(i, j), UnderOf(i, j))) >= 2
            THEN \A j \in Partners(i) :
                    /\ FairOf(out_rows.ret[i], OverOf(i, j), UnderOf(i, j))
                    /\ FairOf(out_rows.ret[j], OverOf(i, j), UnderOf(i, j))
            ELSE FairEmpty(out_rows.ret[i])

\* C28: every input row whose market is the Over or the Under side of a
\* (Partido, threshold) group that has both sides and at least two paired
\* bookmakers receives that group's fair BDI values in the four *_fair
\* columns, the same on the Over and the Under rows; every other row gets
\* empty strings in those columns; the number and order of rows is unchanged.
C28_RowsFilled == pc = "done" => RowsFilled

\* no two rows are the same side of the same group
UniqueSides ==
    \A i, j \in 1..Len(rows) :
       (IsSide(i) /\ IsSide(j) /\ GroupKey(rows[i]) = GroupKey(rows[j])
          /\ market_key(rows[i].Mercado).side = market_key(rows[j].Mercado).side)
         => i = j

\* no bookmaker of a group has a valid Over price with an invalid Under price
NoOverWithoutUnder ==
    \A i \in 1..Len(rows) : \A j \in Partners(i) :
       LET o == parse_todas_las_cuotas(rows[OverOf(i, j)].Todas_Las_Cuotas)
           u == parse_todas_las_cuotas(rows[UnderOf(i, j)].Todas_Las_Cuotas)
       IN  \A b \in DOMAIN o \cap DOMAIN u :
              PriceValid(o[b]) => PriceValid(u[b])

\* C28 for files in which each side of a group is a single row and no
\* bookmaker has a valid Over price with an invalid Under price
C28_RowsFilledUnique ==
    (pc = "done" /\ UniqueSides /\ NoOverWithoutUnder) => RowsFilled

\* a file of three rows: a group with both sides filled with values, and a
\* row that is no side of a group left empty
C28_WitnessUnique ==
    /\ pc = "done"
    /\ UniqueSides
    /\ NoOverWithoutUnder
    /\ Len(rows) = MaxRows
    /\ \E i, j, h \in 1..Len(rows) :
         /\ j \in Partners(i)
         /\ out_rows.ret[i].BDI_mad_p_fair.k = "fixed"
         /\ out_rows.ret[i].BDI_mad_p_fair.micro > 0
         /\ out_rows.ret[j].BDI_mad_p_fair = out_rows.ret[i].BDI_mad_p_fair
         /\ ~IsSide(h)
         /\ FairEmpty(out_rows.ret[h])

\* the odds > 0 of the cell of the row
PositiveOdds ==
    {i \in 1..Len(cell.parts) :
       cell.present /\ Parses(cell.parts[i]) /\ GtZero(cell.parts[i].val)}

\* a row without odds > 0 is written with empty strings and 0 bookmakers;
\* a row with odds > 0 is written with values and their number
RowWritten ==
    /\ ~bdi_row.raised
    /\ IF PositiveOdds = {}
       THEN /\ bdi_row.ret.BDI_jsd = EmptyText
            /\ bdi_row.ret.BDI_std_p = EmptyText
            /\ bdi_row.ret.BDI_mad_p = EmptyText
            /\ bdi_row.ret.BDI_n_bookmakers = StrInt(0)
       ELSE /\ bdi_row.ret.BDI_jsd # EmptyText
            /\ bdi_row.ret.BDI_std_p # EmptyText
            /\ bdi_row.ret.BDI_mad_p # EmptyText
            /\ bdi_row.ret.BDI_n_bookmakers = StrInt(Cardinality(PositiveOdds))

\* C29: a row whose Todas_Las_Cuotas cell yields no odds > 0 (missing,
\* unparsable or all non-positive) is written with empty strings in BDI_jsd,
\* BDI_std_p and BDI_mad_p and with BDI_n_bookmakers = 0, without raising; a
\* row with at least one odd > 0 gets non-empty values and BDI_n_bookmakers
\* equal to the number of odds > 0.
C29_RowWritten == pc = "done" => RowWritten

\* every odd > 0 of the cell has an inverse whose square is a float
NoHugeInverse ==
    \A i \in PositiveOdds :
       cell.parts[i].val.k = "fin"
         => ~SquareRaises(Div(One, cell.parts[i].val))

\* C29 for cells whose odds > 0 are not that small
C29_RowWrittenInRange == (pc = "done" /\ NoHugeInverse) => RowWritten

\* a row with two odds > 0 and one that is not, written with values
C29_WitnessInRange ==
    /\ pc = "done"
    /\ NoHugeInverse
    /\ Cardinality(PositiveOdds) = 2
    /\ Len(cell.parts) = MaxParts
    /\ bdi_row.ret.BDI_n_bookmakers = StrInt(2)
    /\ bdi_row.ret.BDI_jsd.micro > 0


\* the odds of the selection are all > 1, and there is at least one
AllAboveOne ==
    /\ odds_1x # <<>>
    /\ \A i \in 1..Len(odds_1x) :
          \/ odds_1x[i] = Inf
          \/ IsFin(odds_1x[i]) /\ odds_1x[i].n > odds_1x[i].d

\* the fair probability of the selection in every quote set the analyzer
\* built is the raw implied probability 1/o of the odds it was built from
FairIsRaw ==
    /\ Len(bookmaker_odds_list) = Len(odds_1x)
    /\ \A i \in 1..Len(odds_1x) :
          /\ ~remove_vig(bookmaker_odds_list[i]).raised
          /\ sel_label \in DOMAIN remove_vig(bookmaker_odds_list[i]).ret
          /\ remove_vig(bookmaker_odds_list[i]).ret[sel_label]
               = Div(One, odds_1x[i])

\* the analyzer and compute_bdi_from_odds_list return the same four values
SameBdi ==
    /\ ~csv_bdi.raised
    /\ bdi.ret.bdi_jsd = csv_bdi.ret.BDI_jsd
    /\ bdi.ret.bdi_n = IntNum(csv_bdi.ret.BDI_n_bookmakers)
    /\ bdi.ret.bdi_std_p = csv_bdi.ret.BDI_std_p
    /\ bdi.ret.bdi_mad_p = csv_bdi.ret.BDI_mad_p

\* C30: for odds that are all > 1, the quote sets the analyzer builds have,
\* through remove_vig, the fair probability 1/o for the selection, and
\* bookmaker_disagreement on them gives the jsd_mean, n_bookmakers, std and
\* mad of the selection that compute_bdi_from_odds_list gives on the odds
C30_NoMarginRemoved ==
    (pc = "done" /\ AllAboveOne) => (FairIsRaw /\ SameBdi)

\* no odds of the selection is within the floor of 1
NoneNearOne ==
    \A i \in 1..Len(odds_1x) :
        ~Less(Sub(One, Div(One, odds_1x[i])), OtherFloor)

\* C30, for odds none of which is within the floor of 1
C30_NoMarginRemovedAboveFloor ==
    (pc = "done" /\ AllAboveOne /\ NoneNearOne) => (FairIsRaw /\ SameBdi)

\* two bookmakers or more with odds > 1 away from the floor that disagree
C30_WitnessAboveFloor ==
    /\ pc = "done"
    /\ AllAboveOne
    /\ NoneNearOne
    /\ Len(odds_1x) >= 2
    /\ IsFin(bdi.ret.bdi_jsd)
    /\ bdi.ret.bdi_jsd.n > 0
    /\ SameBdi

====
